---- MODULE Spec2Model ----
(***************************************************************************)
(* A model of the error-detection pipeline of rift/agent.py (RiftAgent):   *)
(* the classifier determine_bug_type, the block scan of run_syntax_check,  *)
(* the dynamic executor _analyze_single_file and the aggregation step of   *)
(* run_comprehensive_analysis.                                             *)
(*                                                                         *)
(* Strings are modelled as sequences of one-character strings, so that     *)
(* substring tests, upper() and replace() are computed, not assumed.       *)
(***************************************************************************)
EXTENDS Integers, Sequences, FiniteSets, TLC

VARIABLES
  \* determine_bug_type: its argument, its return value, its position
  error_msg, bug_type, cpc,
  \* run_comprehensive_analysis: the combined list, the deduplicated list, the
  \* list it returns, the list a second aggregation of that list returns,
  \* max_fixes, its position
  all_errors, unique_errors, returned, returned_again, max_fixes, apc,
  \* run_syntax_check on one file: its lines, the pass it is at, the block
  \* scan's loop index and block_start, the errors list, and the line ranges
  \* the block scan has handed to compile()
  src_lines, spc, scan_i, block_start, errors, compiled,
  \* _analyze_single_file on one file: the module's top-level statements,
  \* func_names, the position, the runner's loop index, the whole seconds
  \* spent in calls the alarm ended, the lines of result.stdout, the call
  \* that wrote each of them (0: the module load), the calls made, and the
  \* errors list
  module, func_names, dpc, call_i, elapsed, stdout, writer, calls, dyn_errors,
  \* detect_and_fix, apply_fix and commit_and_push: whether clone_path is set,
  \* the list run_comprehensive_analysis returns, the position, the fix tasks
  \* started and the order in which they completed, self.results, the target
  \* file (does it exist, how many lines), the last call and its outcome, and
  \* the number of calls made
  clone_set, analysis, fpc, started, completed, results, file_exists, file_len, last_call, ncalls,
  \* run_comprehensive_analysis: the repository's files, the four static scanner
  \* tasks, the per-file dynamic tasks and the outcome of the call
  repo, scanner, ppc, dyn_started, dyn_completed, dynamic_errors, outcome,
  \* run_regex_pattern_detection on one file: the lines read, the line number
  \* reached and the scanner's list
  pat_lines, pat_lineno, pattern_errors, patpc,
  \* the places where a Finding gets its category: the place, its input, the
  \* Finding built there and the list returned for it
  map_site, map_input, emitted, map_returned, mappc,
  \* run_rruff_linter: the tools installed and what they print, the AST lint's
  \* list, the stage reached, the list built and how the call ends
  ruff_present, ruff_out, pyflakes_present, pyflakes_out, ast_out, lint_errors, lint_stage, lint_outcome, lpc,
  \* apply_fix on the file's content: the file on disk as physical lines, the
  \* file as it was at detection and before the last call, the Fixes of
  \* commit_and_push's loop, the loop index and each call's return value
  app_file, app_orig, app_prev, app_fixes, app_rets, app_i, app_pc,
  \* run_full_cycle: its position, the results dictionary, the Fixes, the
  \* working copy's source file, whether the repository's code writes to a
  \* source file when run, commit_and_push's return value, the log of events
  cyc_pc, cyc_results, cyc_fixes, cyc_found, cyc_file, cyc_repo_writes, cyc_commit, cyc_log,
  \* create_pull_request: the caller's position and return value, the worker
  \* thread's position, the seconds since t.start(), result_box and error_box,
  \* whether a pull request exists, and the inputs (token, URL, fork)
  prq_pc, prq_ret, prq_worker, prq_clock, prq_result_box, prq_error_box, prq_created, prq_token, prq_url_ok, prq_forked

clsVars == <<error_msg, bug_type, cpc>>
aggVars == <<all_errors, unique_errors, returned, returned_again, max_fixes, apc>>
synVars == <<src_lines, spc, scan_i, block_start, errors, compiled>>
dynVars == <<module, func_names, dpc, call_i, elapsed, stdout, writer, calls, dyn_errors>>
fixVars == <<clone_set, analysis, fpc, started, completed, results, file_exists, file_len, last_call, ncalls>>
pipVars == <<repo, scanner, ppc, dyn_started, dyn_completed, dynamic_errors, outcome>>
patVars == <<pat_lines, pat_lineno, pattern_errors, patpc>>
mapVars == <<map_site, map_input, emitted, map_returned, mappc>>
lintVars == <<ruff_present, ruff_out, pyflakes_present, pyflakes_out, ast_out, lint_errors, lint_stage, lint_outcome, lpc>>
appVars == <<app_file, app_orig, app_prev, app_fixes, app_rets, app_i, app_pc>>
cycVars == <<cyc_pc, cyc_results, cyc_fixes, cyc_found, cyc_file, cyc_repo_writes, cyc_commit, cyc_log>>
prVars == <<prq_pc, prq_ret, prq_worker, prq_clock, prq_result_box, prq_error_box, prq_created, prq_token, prq_url_ok, prq_forked>>
vars == <<clsVars, aggVars, synVars, dynVars, fixVars, pipVars, patVars, mapVars, lintVars, appVars, cycVars, prVars>>

\* the variables each specification leaves alone
notCls == <<aggVars, synVars, dynVars, fixVars, pipVars, patVars, mapVars, lintVars, appVars, cycVars, prVars>>
notAgg == <<clsVars, synVars, dynVars, fixVars, pipVars, patVars, mapVars, lintVars, appVars, cycVars, prVars>>
notSyn == <<clsVars, aggVars, dynVars, fixVars, pipVars, patVars, mapVars, lintVars, appVars, cycVars, prVars>>
notDyn == <<clsVars, aggVars, synVars, fixVars, pipVars, patVars, mapVars, lintVars, appVars, cycVars, prVars>>
notFix == <<clsVars, aggVars, synVars, dynVars, pipVars, patVars, mapVars, lintVars, appVars, cycVars, prVars>>
notPip == <<clsVars, synVars, dynVars, fixVars, patVars, mapVars, lintVars, appVars, cycVars, prVars>>
notPat == <<clsVars, aggVars, synVars, dynVars, fixVars, pipVars, mapVars, lintVars, appVars, cycVars, prVars>>
notMap == <<clsVars, aggVars, synVars, dynVars, fixVars, pipVars, patVars, lintVars, appVars, cycVars, prVars>>
notLint == <<clsVars, aggVars, synVars, dynVars, fixVars, pipVars, patVars, mapVars, appVars, cycVars, prVars>>
notApp == <<clsVars, aggVars, synVars, dynVars, fixVars, pipVars, patVars, mapVars, lintVars, cycVars, prVars>>
notCyc == <<clsVars, aggVars, synVars, dynVars, fixVars, pipVars, patVars, mapVars, lintVars, appVars, prVars>>
notPR == <<clsVars, aggVars, synVars, dynVars, fixVars, pipVars, patVars, mapVars, lintVars, appVars, cycVars>>

\* the state of a component while another component's specification runs
ClsIdle ==
  /\ error_msg = <<>>
  /\ bug_type = "none"
  /\ cpc = "idle"

AggIdle ==
  /\ all_errors = <<>>
  /\ unique_errors = <<>>
  /\ returned = <<>>
  /\ returned_again = <<>>
  /\ max_fixes = 0
  /\ apc = "idle"

SynIdle ==
  /\ src_lines = <<>>
  /\ spc = "idle"
  /\ scan_i = 0
  /\ block_start = 0
  /\ errors = <<>>
  /\ compiled = <<>>

DynIdle ==
  /\ module = <<>>
  /\ func_names = <<>>
  /\ dpc = "idle"
  /\ call_i = 0
  /\ elapsed = 0
  /\ stdout = <<>>
  /\ writer = <<>>
  /\ calls = <<>>
  /\ dyn_errors = <<>>

FixIdle ==
  /\ clone_set = FALSE
  /\ analysis = <<>>
  /\ fpc = "idle"
  /\ started = {}
  /\ completed = <<>>
  /\ results = <<>>
  /\ file_exists = FALSE
  /\ file_len = 0
  /\ last_call = <<>>
  /\ ncalls = 0

PipIdle ==
  /\ repo = <<>>
  /\ scanner = <<>>
  /\ ppc = "idle"
  /\ dyn_started = {}
  /\ dyn_completed = <<>>
  /\ dynamic_errors = <<>>
  /\ outcome = "none"

PatIdle ==
  /\ pat_lines = <<>>
  /\ pat_lineno = 0
  /\ pattern_errors = <<>>
  /\ patpc = "idle"

MapIdle ==
  /\ map_site = ""
  /\ map_input = <<>>
  /\ emitted = <<>>
  /\ map_returned = <<>>
  /\ mappc = "idle"

LintIdle ==
  /\ ruff_present = FALSE
  /\ ruff_out = <<>>
  /\ pyflakes_present = FALSE
  /\ pyflakes_out = <<>>
  /\ ast_out = <<>>
  /\ lint_errors = <<>>
  /\ lint_stage = ""
  /\ lint_outcome = "none"
  /\ lpc = "idle"

AppIdle ==
  /\ app_file = <<>>
  /\ app_orig = <<>>
  /\ app_prev = <<>>
  /\ app_fixes = <<>>
  /\ app_rets = <<>>
  /\ app_i = 0
  /\ app_pc = "idle"

CycIdle ==
  /\ cyc_pc = "idle"
  /\ cyc_results = <<>>
  /\ cyc_fixes = <<>>
  /\ cyc_found = <<>>
  /\ cyc_file = <<>>
  /\ cyc_repo_writes = FALSE
  /\ cyc_commit = "none"
  /\ cyc_log = <<>>

PRIdle ==
  /\ prq_pc = "idle"
  /\ prq_ret = "pending"
  /\ prq_worker = "none"
  /\ prq_clock = 0
  /\ prq_result_box = 0
  /\ prq_error_box = FALSE
  /\ prq_created = FALSE
  /\ prq_token = FALSE
  /\ prq_url_ok = FALSE
  /\ prq_forked = FALSE

(***************************************************************************)
(* The six bug types and their priority order.                             *)
(***************************************************************************)
Categories == {"INDENTATION", "SYNTAX", "IMPORT", "TYPE_ERROR", "LINTING", "LOGIC"}

\* the tuple scanned by determine_bug_type and enumerated into TYPE_PRIORITY
PriorityOrder == <<"INDENTATION", "SYNTAX", "IMPORT", "TYPE_ERROR", "LINTING", "LOGIC">>

(***************************************************************************)
(* str.upper() on the characters that occur in keywords and messages.      *)
(***************************************************************************)
LowerCase == <<"a", "b", "c", "d", "e", "f", "g", "h", "i", "j", "k", "l", "m", "n", "o", "p", "q", "r", "s", "t", "u", "v", "w", "x", "y", "z">>
UpperCase == <<"A", "B", "C", "D", "E", "F", "G", "H", "I", "J", "K", "L", "M", "N", "O", "P", "Q", "R", "S", "T", "U", "V", "W", "X", "Y", "Z">>

ToUpper(c) ==
  IF \E i \in 1..Len(LowerCase) : LowerCase[i] = c
  THEN UpperCase[CHOOSE i \in 1..Len(LowerCase) : LowerCase[i] = c]
  ELSE c

upper(s) == [i \in 1..Len(s) |-> ToUpper(s[i])]

\* Python's `kw in msg` on strings
Contains(kw, msg) ==
  \E p \in 0..(Len(msg) - Len(kw)) : SubSeq(msg, p + 1, p + Len(kw)) = kw

(***************************************************************************)
(* BUG_KEYWORDS, keyword by keyword as in the source.                      *)
(***************************************************************************)
KW_INDENTATION ==
  <<
    \* "IndentationError"
    <<"I", "n", "d", "e", "n", "t", "a", "t", "i", "o", "n", "E", "r", "r", "o", "r">>,
    \* "unexpected indent"
    <<"u", "n", "e", "x", "p", "e", "c", "t", "e", "d", " ", "i", "n", "d", "e", "n", "t">>,
    \* "unindent does not match"
    <<"u", "n", "i", "n", "d", "e", "n", "t", " ", "d", "o", "e", "s", " ", "n", "o", "t", " ", "m", "a", "t", "c", "h">>,
    \* "expected an indented block"
    <<"e", "x", "p", "e", "c", "t", "e", "d", " ", "a", "n", " ", "i", "n", "d", "e", "n", "t", "e", "d", " ", "b", "l", "o", "c", "k">>,
    \* "E1"
    <<"E", "1">>,
    \* "W1"
    <<"W", "1">>
  >>

KW_SYNTAX ==
  <<
    \* "SyntaxError"
    <<"S", "y", "n", "t", "a", "x", "E", "r", "r", "o", "r">>,
    \* "invalid syntax"
    <<"i", "n", "v", "a", "l", "i", "d", " ", "s", "y", "n", "t", "a", "x">>,
    \* "can't parse"
    <<"c", "a", "n", "'", "t", " ", "p", "a", "r", "s", "e">>,
    \* "E999"
    <<"E", "9", "9", "9">>,
    \* "never closed"
    <<"n", "e", "v", "e", "r", " ", "c", "l", "o", "s", "e", "d">>,
    \* "expected"
    <<"e", "x", "p", "e", "c", "t", "e", "d">>,
    \* "was never closed"
    <<"w", "a", "s", " ", "n", "e", "v", "e", "r", " ", "c", "l", "o", "s", "e", "d">>
  >>

KW_IMPORT ==
  <<
    \* "ImportError"
    <<"I", "m", "p", "o", "r", "t", "E", "r", "r", "o", "r">>,
    \* "ModuleNotFoundError"
    <<"M", "o", "d", "u", "l", "e", "N", "o", "t", "F", "o", "u", "n", "d", "E", "r", "r", "o", "r">>,
    \* "No module named"
    <<"N", "o", " ", "m", "o", "d", "u", "l", "e", " ", "n", "a", "m", "e", "d">>,
    \* "cannot import"
    <<"c", "a", "n", "n", "o", "t", " ", "i", "m", "p", "o", "r", "t">>,
    \* "F401"
    <<"F", "4", "0", "1">>,
    \* "F811"
    <<"F", "8", "1", "1">>
  >>

KW_TYPE_ERROR ==
  <<
    \* "TypeError"
    <<"T", "y", "p", "e", "E", "r", "r", "o", "r">>,
    \* "unsupported operand"
    <<"u", "n", "s", "u", "p", "p", "o", "r", "t", "e", "d", " ", "o", "p", "e", "r", "a", "n", "d">>,
    \* "cannot concatenate"
    <<"c", "a", "n", "n", "o", "t", " ", "c", "o", "n", "c", "a", "t", "e", "n", "a", "t", "e">>,
    \* "must be str"
    <<"m", "u", "s", "t", " ", "b", "e", " ", "s", "t", "r">>,
    \* "UnicodeDecodeError"
    <<"U", "n", "i", "c", "o", "d", "e", "D", "e", "c", "o", "d", "e", "E", "r", "r", "o", "r">>,
    \* "UnicodeEncodeError"
    <<"U", "n", "i", "c", "o", "d", "e", "E", "n", "c", "o", "d", "e", "E", "r", "r", "o", "r">>
  >>

KW_LINTING ==
  <<
    \* "F841"
    <<"F", "8", "4", "1">>,
    \* "F821"
    <<"F", "8", "2", "1">>,
    \* "F811"
    <<"F", "8", "1", "1">>,
    \* "F401"
    <<"F", "4", "0", "1">>,
    \* "W"
    <<"W">>,
    \* "E2"
    <<"E", "2">>,
    \* "E3"
    <<"E", "3">>,
    \* "E5"
    <<"E", "5">>,
    \* "unused"
    <<"u", "n", "u", "s", "e", "d">>,
    \* "redefined"
    <<"r", "e", "d", "e", "f", "i", "n", "e", "d">>,
    \* "undefined name"
    <<"u", "n", "d", "e", "f", "i", "n", "e", "d", " ", "n", "a", "m", "e">>,
    \* "ruff"
    <<"r", "u", "f", "f">>,
    \* "pyflakes"
    <<"p", "y", "f", "l", "a", "k", "e", "s">>,
    \* "line too long"
    <<"l", "i", "n", "e", " ", "t", "o", "o", " ", "l", "o", "n", "g">>,
    \* "whitespace"
    <<"w", "h", "i", "t", "e", "s", "p", "a", "c", "e">>
  >>

KW_LOGIC ==
  <<
    \* "NameError"
    <<"N", "a", "m", "e", "E", "r", "r", "o", "r">>,
    \* "AttributeError"
    <<"A", "t", "t", "r", "i", "b", "u", "t", "e", "E", "r", "r", "o", "r">>,
    \* "IndexError"
    <<"I", "n", "d", "e", "x", "E", "r", "r", "o", "r">>,
    \* "KeyError"
    <<"K", "e", "y", "E", "r", "r", "o", "r">>,
    \* "ValueError"
    <<"V", "a", "l", "u", "e", "E", "r", "r", "o", "r">>,
    \* "ZeroDivisionError"
    <<"Z", "e", "r", "o", "D", "i", "v", "i", "s", "i", "o", "n", "E", "r", "r", "o", "r">>,
    \* "RuntimeError"
    <<"R", "u", "n", "t", "i", "m", "e", "E", "r", "r", "o", "r">>,
    \* "RecursionError"
    <<"R", "e", "c", "u", "r", "s", "i", "o", "n", "E", "r", "r", "o", "r">>,
    \* "OverflowError"
    <<"O", "v", "e", "r", "f", "l", "o", "w", "E", "r", "r", "o", "r">>,
    \* "AssertionError"
    <<"A", "s", "s", "e", "r", "t", "i", "o", "n", "E", "r", "r", "o", "r">>,
    \* "StopIteration"
    <<"S", "t", "o", "p", "I", "t", "e", "r", "a", "t", "i", "o", "n">>,
    \* "PermissionError"
    <<"P", "e", "r", "m", "i", "s", "s", "i", "o", "n", "E", "r", "r", "o", "r">>,
    \* "FileNotFoundError"
    <<"F", "i", "l", "e", "N", "o", "t", "F", "o", "u", "n", "d", "E", "r", "r", "o", "r">>,
    \* "OSError"
    <<"O", "S", "E", "r", "r", "o", "r">>,
    \* "MemoryError"
    <<"M", "e", "m", "o", "r", "y", "E", "r", "r", "o", "r">>,
    \* "NotImplementedError"
    <<"N", "o", "t", "I", "m", "p", "l", "e", "m", "e", "n", "t", "e", "d", "E", "r", "r", "o", "r">>,
    \* "FloatingPointError"
    <<"F", "l", "o", "a", "t", "i", "n", "g", "P", "o", "i", "n", "t", "E", "r", "r", "o", "r">>,
    \* "LookupError"
    <<"L", "o", "o", "k", "u", "p", "E", "r", "r", "o", "r">>,
    \* "bare except"
    <<"b", "a", "r", "e", " ", "e", "x", "c", "e", "p", "t">>,
    \* "unreachable"
    <<"u", "n", "r", "e", "a", "c", "h", "a", "b", "l", "e">>,
    \* "off-by-one"
    <<"o", "f", "f", "-", "b", "y", "-", "o", "n", "e">>,
    \* "division by zero"
    <<"d", "i", "v", "i", "s", "i", "o", "n", " ", "b", "y", " ", "z", "e", "r", "o">>
  >>

BUG_KEYWORDS ==
  [t \in Categories |->
     CASE t = "INDENTATION" -> KW_INDENTATION
       [] t = "SYNTAX"      -> KW_SYNTAX
       [] t = "IMPORT"      -> KW_IMPORT
       [] t = "TYPE_ERROR"  -> KW_TYPE_ERROR
       [] t = "LINTING"     -> KW_LINTING
       [] t = "LOGIC"       -> KW_LOGIC]

\* the inner loop: some keyword of bug_type, uppercased, occurs in msg
KeywordHit(t, msg) ==
  \E k \in 1..Len(BUG_KEYWORDS[t]) : Contains(upper(BUG_KEYWORDS[t][k]), msg)

\* the outer loop without the final `return "LOGIC"`: falling off the loop
\* returns None
RECURSIVE ScanTypesNoDefault(_, _)
ScanTypesNoDefault(order, msg) ==
  IF order = <<>> THEN "None"
  ELSE IF KeywordHit(Head(order), msg) THEN Head(order)
  ELSE ScanTypesNoDefault(Tail(order), msg)

\* the outer loop over the priority tuple, returning at the first hit
RECURSIVE ScanTypes(_, _)
ScanTypes(order, msg) ==
  IF order = <<>> THEN "LOGIC"
  ELSE IF KeywordHit(Head(order), msg) THEN Head(order)
  ELSE ScanTypes(Tail(order), msg)

\* determine_bug_type without `msg = error_msg.upper()`
determine_bug_type_CaseSensitive(msg) ==
  IF msg = <<>> THEN "LOGIC"
  ELSE ScanTypes(PriorityOrder, msg)

determine_bug_type(msg) ==
  IF msg = <<>> THEN "LOGIC"
  ELSE ScanTypes(PriorityOrder, upper(msg))

(***************************************************************************)
(* The aggregation step of run_comprehensive_analysis.                     *)
(*                                                                         *)
(* A path is a sequence of fragments of its text; clone_path is the        *)
(* default clone_dir "/tmp/repo_clone", in the two fragments "/tmp/repo_"  *)
(* and "clone".                                                            *)
(***************************************************************************)
clone_path == <<"/tmp/repo_", "clone">>

\* str.replace(old, ""): every non-overlapping occurrence, left to right
RECURSIVE Remove(_, _)
Remove(s, old) ==
  IF Len(s) < Len(old) THEN s
  ELSE IF SubSeq(s, 1, Len(old)) = old
       THEN Remove(SubSeq(s, Len(old) + 1, Len(s)), old)
       ELSE <<Head(s)>> \o Remove(Tail(s), old)

\* fp after `if str(self.clone_path) in fp: fp = fp.replace(... + '/', '')`
NormalizePath(fp) ==
  IF Contains(clone_path, fp) THEN Remove(fp, clone_path \o <<"/">>) ELSE fp

\* '.ipynb' in fp or '/docstrings/' in fp or '/doc/' in fp
IsDocPath(fp) ==
  \/ Contains(<<".ipynb">>, fp)
  \/ Contains(<<"/", "docstrings", "/">>, fp)
  \/ Contains(<<"/", "doc", "/">>, fp)

\* TYPE_PRIORITY.get(type, 99)
TYPE_PRIORITY(t) ==
  IF \E i \in 1..Len(PriorityOrder) : PriorityOrder[i] = t
  THEN (CHOOSE i \in 1..Len(PriorityOrder) : PriorityOrder[i] = t) - 1
  ELSE 99

KeyOf(e) == <<e.file, e.line>>

\* position of key in the insertion-ordered dict `best`, 0 when absent
KeyIndex(best, key) ==
  IF \E i \in 1..Len(best) : KeyOf(best[i]) = key
  THEN CHOOSE i \in 1..Len(best) : KeyOf(best[i]) = key
  ELSE 0

\* the iteration with `best[key] = error` done unconditionally: last writer wins
MergeOneLastWins(best, error) ==
  LET fp  == NormalizePath(error.file)
      e   == [error EXCEPT !.file = fp]
      idx == KeyIndex(best, KeyOf(e))
  IN  IF IsDocPath(fp) THEN best
      ELSE IF idx = 0 THEN Append(best, e)
      ELSE [best EXCEPT ![idx] = e]

\* one iteration of `for error in all_errors` on the dict `best`, kept as the
\* sequence of its values in insertion order
MergeOne(best, error) ==
  LET fp  == NormalizePath(error.file)
      e   == [error EXCEPT !.file = fp]
      idx == KeyIndex(best, KeyOf(e))
  IN  IF IsDocPath(fp) THEN best
      ELSE IF idx = 0 THEN Append(best, e)
      ELSE IF TYPE_PRIORITY(e.type) < TYPE_PRIORITY(best[idx].type)
           THEN [best EXCEPT ![idx] = e]
           ELSE best

RECURSIVE MergeAll(_, _)
MergeAll(best, errs) ==
  IF errs = <<>> THEN best
  ELSE MergeAll(MergeOne(best, Head(errs)), Tail(errs))

\* the last n entries instead of the first n
IsliceFromEnd(list, n) ==
  SubSeq(list, (IF n < Len(list) THEN Len(list) - n ELSE 0) + 1, Len(list))

\* list(itertools.islice(unique_errors, n)), n >= 0
Islice(list, n) == SubSeq(list, 1, IF n < Len(list) THEN n ELSE Len(list))

\* list(best.values()) after the loop of lines 1151-1166
Dedup(errs) == MergeAll(<<>>, errs)

\* lines 1147-1170 on a combined list
Aggregate(errs, n) == Islice(Dedup(errs), n)

(***************************************************************************)
(* Findings that reach the aggregator: the scanners' relative paths, the   *)
(* absolute paths external tools print, a repository directory whose name  *)
(* embeds the clone path, and a documentation directory.                   *)
(***************************************************************************)
MaxFindings == 3
DefaultMaxFixes == 50

PathA   == <<"a.py">>
PathAbs == clone_path \o <<"/", "a.py">>
PathNested ==
  <<"x", "/tmp/repo_">> \o clone_path \o <<"/", "clone", "/", "a.py">>
PathDoc == <<"pkg", "/", "doc", "/", "a.py">>

Paths == {PathA, PathAbs, PathNested}

Findings ==
  [file : Paths, line : {1}, type : Categories]
    \cup {[file |-> PathDoc, line |-> 1, type |-> "LOGIC"]}

Init ==
  /\ all_errors = <<>>
  /\ unique_errors = <<>>
  /\ returned = <<>>
  /\ returned_again = <<>>
  /\ max_fixes \in {0, 1, DefaultMaxFixes}
  /\ apc = "collect"
  /\ ClsIdle
  /\ SynIdle
  /\ DynIdle
  /\ FixIdle
  /\ PipIdle
  /\ PatIdle
  /\ MapIdle
  /\ LintIdle
  /\ AppIdle
  /\ CycIdle
  /\ PRIdle

\* a scanner's Finding is appended to all_errors (lines 1132-1145)
Extend ==
  /\ apc = "collect"
  /\ Len(all_errors) < MaxFindings
  /\ \E e \in Findings : all_errors' = Append(all_errors, e)
  /\ UNCHANGED <<unique_errors, returned, returned_again, max_fixes, apc, notAgg>>

\* lines 1147-1170
Deduplicate ==
  /\ apc = "collect"
  /\ unique_errors' = Dedup(all_errors)
  /\ returned' = Islice(unique_errors', max_fixes)
  /\ apc' = "returned"
  /\ UNCHANGED <<all_errors, returned_again, max_fixes, notAgg>>

\* the same procedure on its own output
DeduplicateAgain ==
  /\ apc = "returned"
  /\ returned_again' = Aggregate(returned, max_fixes)
  /\ apc' = "again"
  /\ UNCHANGED <<all_errors, unique_errors, returned, max_fixes, notAgg>>

Next == Extend \/ Deduplicate \/ DeduplicateAgain

Spec == Init /\ [][Next]_vars

(***************************************************************************)
(* run_syntax_check on one file.                                           *)
(*                                                                         *)
(* A source line is its kind and its indentation level:                    *)
(*   "header"          def f():                                            *)
(*   "header_nocolon"  def f()                                             *)
(*   "stmt"            x = 1                                               *)
(*   "blank"           the empty line                                      *)
(*   "coding"          # -*- coding: foo -*-   (an encoding Python lacks)  *)
(* The file's text is its lines joined by newlines.                        *)
(***************************************************************************)
MaxLines == 4

Line(kind, indent) == [kind |-> kind, indent |-> indent]

LineTypes ==
  { Line("header", 0), Line("header", 1),
    Line("header_nocolon", 0), Line("header_nocolon", 1),
    Line("stmt", 0), Line("stmt", 1), Line("stmt", 2),
    Line("blank", 0), Line("coding", 0) }

RECURSIVE SeqsUpTo(_, _)
SeqsUpTo(S, n) ==
  IF n = 0 THEN {<<>>}
  ELSE SeqsUpTo(S, n - 1) \cup {Append(q, x) : q \in SeqsUpTo(S, n - 1), x \in S}

\* a line the tokenizer skips: empty, or a comment
NoCode(l) == l.kind \in {"blank", "coding"}

\* `block_src.strip()` is empty
IsBlankSrc(lines) == \A k \in 1..Len(lines) : lines[k].kind = "blank"

\* the outcome of compile() / tokenize: no error, or the first error raised
Ok == [kind |-> "ok", lineno |-> 0]
IndentationError(n) == [kind |-> "IndentationError", lineno |-> n]
SyntaxError(n) == [kind |-> "SyntaxError", lineno |-> n]

\* the line of the end of input: a final empty line is no line of the text
EndLine(lines) ==
  IF lines[Len(lines)].kind = "blank" THEN Len(lines) - 1 ELSE Len(lines)

\* the indentation stack after a dedent to column c
RECURSIVE PopTo(_, _)
PopTo(stack, c) ==
  IF stack[Len(stack)] > c THEN PopTo(SubSeq(stack, 1, Len(stack) - 1), c) ELSE stack

\* CPython's parser on lines k..: the indentation stack, and whether the
\* previous statement opened a block
RECURSIVE Parse(_, _, _, _)
Parse(lines, k, stack, expect) ==
  IF k > Len(lines)
  THEN IF expect THEN IndentationError(EndLine(lines)) ELSE Ok
  ELSE
    LET l == lines[k]
        c == l.indent
        top == stack[Len(stack)]
    IN  IF NoCode(l) THEN Parse(lines, k + 1, stack, expect)
        ELSE IF c > top /\ ~expect THEN IndentationError(k)     \* unexpected indent
        ELSE IF c <= top /\ expect THEN IndentationError(k)     \* expected an indented block
        ELSE IF c < top /\ PopTo(stack, c)[Len(PopTo(stack, c))] # c
             THEN IndentationError(k)                           \* unindent does not match
        ELSE IF l.kind = "header_nocolon" THEN SyntaxError(k)   \* expected ':'
        ELSE Parse(lines, k + 1,
                   IF c > top THEN Append(stack, c) ELSE PopTo(stack, c),
                   l.kind = "header")

\* compile(src, filename, 'exec')
Compile(lines) == Parse(lines, 1, <<0>>, FALSE)

\* tokenize.generate_tokens: only a dedent to no enclosing level raises
RECURSIVE Lex(_, _, _)
Lex(lines, k, stack) ==
  IF k > Len(lines) THEN Ok
  ELSE
    LET l == lines[k]
        c == l.indent
        top == stack[Len(stack)]
    IN  IF NoCode(l) THEN Lex(lines, k + 1, stack)
        ELSE IF c > top THEN Lex(lines, k + 1, Append(stack, c))
        ELSE IF PopTo(stack, c)[Len(PopTo(stack, c))] # c THEN IndentationError(k)
        ELSE Lex(lines, k + 1, PopTo(stack, c))

Tokenize(lines) == Lex(lines, 1, <<0>>)

\* content.splitlines(): the text's lines; a final empty line is no line
splitlines(content) ==
  IF Len(content) > 0 /\ content[Len(content)].kind = "blank"
  THEN SubSeq(content, 1, Len(content) - 1)
  ELSE content

\* `e.lineno or 1` (None is 0 here)
LinenoOr1(n) == IF n = 0 THEN 1 ELSE n

\* re.match(r'^(?:def|class|async\s+def)\s', raw_line.strip())
IsHeader(l) == l.kind \in {"header", "header_nocolon"}

rel_path == <<"a.py">>

\* the closure _add: append unless (file, line) is already recorded
Add(errs, file, line, type, source) ==
  IF \E k \in 1..Len(errs) : errs[k].file = file /\ errs[k].line = line
  THEN errs
  ELSE Append(errs, [file |-> file, line |-> line, type |-> type, source |-> source])

\* the encoding declaration is read on line 1, or on line 2 under a line
\* without code
CodingDeclared(lines) ==
  \/ Len(lines) >= 1 /\ lines[1].kind = "coding"
  \/ Len(lines) >= 2 /\ NoCode(lines[1]) /\ lines[2].kind = "coding"

\* "SyntaxError: unknown encoding: foo"
UnknownEncodingMsg ==
  <<"S", "y", "n", "t", "a", "x", "E", "r", "r", "o", "r", ":", " ",
    "u", "n", "k", "n", "o", "w", "n", " ",
    "e", "n", "c", "o", "d", "i", "n", "g", ":", " ", "f", "o", "o">>

\* the text of a source line, without its indentation
LineText(l) ==
  CASE l.kind = "header"         -> <<"d", "e", "f", " ", "f", "(", ")", ":">>
    [] l.kind = "header_nocolon" -> <<"d", "e", "f", " ", "f", "(", ")">>
    [] l.kind = "stmt"           -> <<"x", " ", "=", " ", "1">>
    [] l.kind = "blank"          -> <<>>
    [] l.kind = "coding"         -> <<"#", " ", "c", "o", "d", "i", "n", "g", ":", " ", "f", "o", "o">>

\* what the patterns of lines 339-343 extract from the output of
\* `python3 -m py_compile`: nothing, or a line number and a message.  An
\* undecodable file is reported at line 0; a SyntaxError is printed as
\* `File "...", line N` followed by the source line, which becomes the message;
\* an IndentationError is printed as `Sorry: IndentationError: ...`, which no
\* pattern matches.
PyCompileReport(lines) ==
  IF CodingDeclared(lines)
  THEN [found |-> TRUE, ln |-> 0, msg |-> UnknownEncodingMsg]
  ELSE LET r == Compile(lines)
       IN  IF r.kind = "SyntaxError"
           THEN [found |-> TRUE, ln |-> r.lineno, msg |-> LineText(lines[r.lineno])]
           ELSE [found |-> FALSE, ln |-> 0, msg |-> <<>>]

\* Pass 1 (lines 311-319)
AfterTokenize(errs, lines) ==
  LET r == Tokenize(lines)
  IN  IF r.kind = "IndentationError"
      THEN Add(errs, rel_path, LinenoOr1(r.lineno), "INDENTATION", "tokenize")
      ELSE errs

\* Pass 2 (lines 321-329)
AfterCompile(errs, lines) ==
  LET r == Compile(lines)
  IN  IF r.kind = "IndentationError"
      THEN Add(errs, rel_path, LinenoOr1(r.lineno), "INDENTATION", "compile")
      ELSE IF r.kind = "SyntaxError"
      THEN Add(errs, rel_path, LinenoOr1(r.lineno), "SYNTAX", "compile")
      ELSE errs

\* Pass 3 (lines 331-353): the file is named by its absolute path
AfterPyCompile(errs, lines) ==
  LET r == PyCompileReport(lines)
  IN  IF r.found
      THEN Add(errs, NormalizePath(clone_path \o <<"/">> \o rel_path), r.ln,
               determine_bug_type(r.msg), "py_compile")
      ELSE errs

\* Pass 4, lines 374-402 without the retry on the body: `except SyntaxError: pass`
ScanBlockNoRetry(errs, block_lines, start) ==
  IF IsBlankSrc(block_lines) THEN errs
  ELSE LET r == Compile(block_lines)
       IN  IF r.kind = "IndentationError"
           THEN Add(errs, rel_path, start + LinenoOr1(r.lineno), "INDENTATION", "block_scan")
           ELSE errs

\* Pass 4 with the body's line counted from the block's start, without the
\* `+ 1` for the header
ScanBlockBodyFromStart(errs, block_lines, start) ==
  IF IsBlankSrc(block_lines) THEN errs
  ELSE LET r == Compile(block_lines)
       IN  IF r.kind = "IndentationError"
           THEN Add(errs, rel_path, start + LinenoOr1(r.lineno), "INDENTATION", "block_scan")
           ELSE IF r.kind = "SyntaxError" /\ Len(block_lines) > 1
                   /\ ~IsBlankSrc(Tail(block_lines))
           THEN LET b == Compile(Tail(block_lines))
                IN  IF b.kind = "IndentationError"
                    THEN Add(errs, rel_path, start + LinenoOr1(b.lineno),
                             "INDENTATION", "block_scan")
                    ELSE errs
           ELSE errs

\* Pass 4, lines 374-402: compile one block, and its body alone when the block
\* raises a SyntaxError
ScanBlock(errs, block_lines, start) ==
  IF IsBlankSrc(block_lines) THEN errs
  ELSE LET r == Compile(block_lines)
       IN  IF r.kind = "IndentationError"
           THEN Add(errs, rel_path, start + LinenoOr1(r.lineno), "INDENTATION", "block_scan")
           ELSE IF r.kind = "SyntaxError" /\ Len(block_lines) > 1
                   /\ ~IsBlankSrc(Tail(block_lines))
           THEN LET b == Compile(Tail(block_lines))
                IN  IF b.kind = "IndentationError"
                    THEN Add(errs, rel_path, start + 1 + LinenoOr1(b.lineno),
                             "INDENTATION", "block_scan")
                    ELSE errs
           ELSE errs

SyntaxInit ==
  /\ src_lines \in SeqsUpTo(LineTypes, MaxLines)
  /\ spc = "tokenize"
  /\ scan_i = 0
  /\ block_start = 0
  /\ errors = <<>>
  /\ compiled = <<>>
  /\ ClsIdle
  /\ AggIdle
  /\ DynIdle
  /\ FixIdle
  /\ PipIdle
  /\ PatIdle
  /\ MapIdle
  /\ LintIdle
  /\ AppIdle
  /\ CycIdle
  /\ PRIdle

TokenizePass ==
  /\ spc = "tokenize"
  /\ errors' = AfterTokenize(errors, src_lines)
  /\ spc' = "compile"
  /\ UNCHANGED <<src_lines, scan_i, block_start, compiled, notSyn>>

CompilePass ==
  /\ spc = "compile"
  /\ errors' = AfterCompile(errors, src_lines)
  /\ spc' = "py_compile"
  /\ UNCHANGED <<src_lines, scan_i, block_start, compiled, notSyn>>

PyCompilePass ==
  /\ spc = "py_compile"
  /\ errors' = AfterPyCompile(errors, src_lines)
  /\ spc' = "block_scan"
  /\ UNCHANGED <<src_lines, scan_i, block_start, compiled, notSyn>>

\* one iteration of `for i, raw_line in enumerate(lines)` (lines 364-405)
BlockScanStep ==
  /\ spc = "block_scan"
  /\ scan_i < Len(splitlines(src_lines))
  /\ LET lines == splitlines(src_lines)
         i == scan_i
         is_new_block == IsHeader(lines[i + 1]) /\ i > 0
         stop == IF is_new_block THEN i ELSE i + 1
         block_lines == SubSeq(lines, block_start + 1, stop)
     IN  /\ IF is_new_block \/ i = Len(lines) - 1
            THEN /\ errors' = ScanBlock(errors, block_lines, block_start)
                 /\ compiled' = IF IsBlankSrc(block_lines) THEN compiled
                                ELSE Append(compiled, <<block_start, stop>>)
            ELSE UNCHANGED <<errors, compiled>>
         /\ block_start' = IF is_new_block THEN i ELSE block_start
  /\ scan_i' = scan_i + 1
  /\ UNCHANGED <<src_lines, spc, notSyn>>

\* the loop is over: the file is done
BlockScanEnd ==
  /\ spc = "block_scan"
  /\ scan_i = Len(splitlines(src_lines))
  /\ spc' = "done"
  /\ UNCHANGED <<src_lines, scan_i, block_start, errors, compiled, notSyn>>

SyntaxNext ==
  TokenizePass \/ CompilePass \/ PyCompilePass \/ BlockScanStep \/ BlockScanEnd

SpecSyntax == SyntaxInit /\ [][SyntaxNext]_vars

(***************************************************************************)
(* _analyze_single_file on one file.                                       *)
(*                                                                         *)
(* A module is the sequence of its top-level statements.  Statement k      *)
(* takes two lines of the file: its first line is 2k - 1 and its body      *)
(* line is 2k.  A name is a sequence of text fragments.                    *)
(*   FunctionDef f, g, h, _helper, t, e, main, i, w    def name(...): body *)
(*   If n            if True:  def n(): return 1 / 0   (a nested def)      *)
(*   Import          import nosuchmod                  (fails at load)     *)
(*   Broken          def f(                            (does not compile)  *)
(* Bodies:                                                                 *)
(*   "pass"         returns                                                *)
(*   "call_helper"  return _helper()                                       *)
(*   "raise"        return 1 / 0                                           *)
(*   "loop"         while True: pass       (ended by the alarm)            *)
(*   "exit"         sys.exit(0)                                            *)
(*   "print_exit"   print(json.dumps({"status": "ok"})); sys.exit(0)       *)
(*   "interrupt"    raise KeyboardInterrupt                                *)
(*   "hang"         a loop that swallows TimeoutError                      *)
(***************************************************************************)
MaxNodes == 3
MaxPadded == 1

\* `[:20]`, _BUDGET_SECS, signal.alarm(1), and the line of `fn()` in the
\* runner script (the script's first line is empty)
FuncCap == 20
BudgetSecs == 15
AlarmSecs == 1
RunnerCallLine == 37

Node(kind, name, required, body) ==
  [kind |-> kind, name |-> name, required |-> required, body |-> body]

Def(name, required, body) == Node("FunctionDef", name, required, body)

HelperName == <<"_", "helper">>

NodeTypes ==
  { Def(<<"f">>, FALSE, "pass"),
    Def(<<"f">>, TRUE, "pass"),
    Def(<<"g">>, FALSE, "call_helper"),
    Def(<<"h">>, FALSE, "call_helper"),
    Def(HelperName, FALSE, "raise"),
    Def(<<"t">>, FALSE, "loop"),
    Def(<<"e">>, FALSE, "exit"),
    Def(<<"main">>, FALSE, "print_exit"),
    Def(<<"i">>, FALSE, "interrupt"),
    Def(<<"w">>, FALSE, "hang"),
    Node("If", <<"n">>, FALSE, "raise"),
    Node("Import", <<"nosuchmod">>, FALSE, "import_missing") }

Broken == Node("Broken", <<"f">>, FALSE, "pass")

\* FuncCap - 1 functions that return, or that run until the alarm
Padding ==
  { [k \in 1..(FuncCap - 1) |-> Def(<<"f">>, FALSE, "pass")],
    [k \in 1..(FuncCap - 1) |-> Def(<<"t">>, FALSE, "loop")] }

Modules ==
  SeqsUpTo(NodeTypes, MaxNodes)
    \cup {pad \o m : pad \in Padding, m \in SeqsUpTo(NodeTypes, MaxPadded)}
    \cup {Append(m, Broken) : m \in SeqsUpTo(NodeTypes, 1)}

HeaderLine(k) == 2 * k - 1
BodyLine(k) == 2 * k

\* compile(source, ...) raises no SyntaxError
Compiles(mod) == \A k \in 1..Len(mod) : mod[k].kind # "Broken"

\* name.startswith('_')
startswith_underscore(name) == Len(name) > 0 /\ name[1] = "_"

\* `[:n]`
Take(list, n) == SubSeq(list, 1, IF Len(list) < n THEN Len(list) ELSE n)

IsPublicDef(node) == node.kind = "FunctionDef" /\ ~startswith_underscore(node.name)

\* the names of the direct children of the module that are FunctionDef nodes
\* with a name that does not start with '_', the first FuncCap of them
FuncNames(mod) ==
  LET chosen == SelectSeq(mod, IsPublicDef)
  IN  Take([k \in 1..Len(chosen) |-> chosen[k].name], FuncCap)

\* getattr(mod, fname, None): the statement that bound the name last, 0 for None
Binding(mod, name) ==
  LET S == {k \in 1..Len(mod) : mod[k].name = name /\ mod[k].kind \in {"FunctionDef", "If"}}
  IN  IF S = {} THEN 0 ELSE CHOOSE k \in S : \A j \in S : j <= k

\* callable(fn)
Callable(mod, b) == b # 0

Returned == [ending |-> "return", exc |-> "", line |-> 0, msg |-> "", prints |-> <<>>]
Raised(exc, line, msg) ==
  [ending |-> "raise", exc |-> exc, line |-> line, msg |-> msg, prints |-> <<>>]
Ended(how, prints) ==
  [ending |-> how, exc |-> "", line |-> 0, msg |-> "", prints |-> prints]

\* what `fn()` does for the statement b of the module: how the call ends,
\* what it wrote to stdout, and for an exception its name and the line of the
\* innermost frame inside the file (the runner's own line when no frame is)
CallResult(mod, b) ==
  LET node == mod[b]
      hb == Binding(mod, HelperName)
  IN  IF node.required
      THEN Raised("TypeError", RunnerCallLine, "missing 1 required positional argument")
      ELSE CASE node.body = "pass" -> Returned
             [] node.body = "raise" -> Raised("ZeroDivisionError", BodyLine(b), "division by zero")
             [] node.body = "call_helper" ->
                  IF hb = 0
                  THEN Raised("NameError", BodyLine(b), "name '_helper' is not defined")
                  ELSE Raised("ZeroDivisionError", BodyLine(hb), "division by zero")
             [] node.body = "loop" -> Ended("TimeoutError", <<>>)
             [] node.body = "exit" -> Ended("SystemExit", <<>>)
             [] node.body = "print_exit" -> Ended("SystemExit", <<[status |-> "ok"]>>)
             [] node.body = "interrupt" -> Ended("KeyboardInterrupt", <<>>)
             [] node.body = "hang" -> Ended("hang", <<>>)

\* json.dumps({"file": rel_path, "line": lineno, "exc": ..., "msg": ...})
Record(line, exc, msg) == [file |-> rel_path, line |-> line, exc |-> exc, msg |-> msg]

\* the statements whose execution fails while the module is loaded
LoadFailures(mod) == {k \in 1..Len(mod) : mod[k].body = "import_missing"}

\* data.get(key, default)
Get(data, key, default) == IF key \in DOMAIN data THEN data[key] ELSE default

LogicExceptions ==
  {"NameError", "AttributeError", "IndexError", "KeyError", "ValueError",
   "ZeroDivisionError", "RecursionError", "FileNotFoundError", "OSError",
   "OverflowError", "MemoryError", "AssertionError", "RuntimeError",
   "NotImplementedError", "StopIteration", "PermissionError",
   "FloatingPointError", "LookupError"}

\* the table looked up with no default: `mapping.get(exception_name)`
map_exception_NoDefault(exception_name) ==
  CASE exception_name \in {"IndentationError", "TabError"} -> "INDENTATION"
    [] exception_name = "SyntaxError" -> "SYNTAX"
    [] exception_name \in {"ImportError", "ModuleNotFoundError"} -> "IMPORT"
    [] exception_name \in {"TypeError", "UnicodeDecodeError", "UnicodeEncodeError"} -> "TYPE_ERROR"
    [] exception_name \in LogicExceptions -> "LOGIC"
    [] OTHER -> "None"

\* _map_exception_to_bug_type
map_exception_to_bug_type(exception_name) ==
  CASE exception_name \in {"IndentationError", "TabError"} -> "INDENTATION"
    [] exception_name = "SyntaxError" -> "SYNTAX"
    [] exception_name \in {"ImportError", "ModuleNotFoundError"} -> "IMPORT"
    [] exception_name \in {"TypeError", "UnicodeDecodeError", "UnicodeEncodeError"} -> "TYPE_ERROR"
    [] exception_name \in LogicExceptions -> "LOGIC"
    [] OTHER -> "LOGIC"

\* the Finding appended for one stdout line; its message is `{exc}: {msg}`
FindingOf(data) ==
  [file |-> Get(data, "file", rel_path),
   line |-> Get(data, "line", 1),
   message |-> <<Get(data, "exc", "RuntimeError"), ": ", Get(data, "msg", "")>>,
   type |-> map_exception_to_bug_type(Get(data, "exc", "RuntimeError")),
   source |-> "dynamic"]

\* the key under which a stdout line is remembered in seen_in_file
SeenKey(data) == <<rel_path, Get(data, "line", 1), Get(data, "exc", "RuntimeError")>>

\* lines 1039-1062 without the test `if key in seen_in_file: continue`
RECURSIVE ParseLinesNoSeen(_, _, _, _)
ParseLinesNoSeen(out, k, seen, errs) ==
  IF k > Len(out) THEN errs
  ELSE ParseLinesNoSeen(out, k + 1, seen \cup {SeenKey(out[k])},
                        Append(errs, FindingOf(out[k])))

\* lines 1039-1062: every stdout line that starts with '{' and is a JSON
\* object becomes a Finding unless its key was seen before
RECURSIVE ParseLines(_, _, _, _)
ParseLines(out, k, seen, errs) ==
  IF k > Len(out) THEN errs
  ELSE IF SeenKey(out[k]) \in seen
       THEN ParseLines(out, k + 1, seen, errs)
       ELSE ParseLines(out, k + 1, seen \cup {SeenKey(out[k])},
                       Append(errs, FindingOf(out[k])))

DynInit ==
  /\ module \in Modules
  /\ func_names = <<>>
  /\ dpc = "select"
  /\ call_i = 0
  /\ elapsed = 0
  /\ stdout = <<>>
  /\ writer = <<>>
  /\ calls = <<>>
  /\ dyn_errors = <<>>
  /\ ClsIdle
  /\ AggIdle
  /\ SynIdle
  /\ FixIdle
  /\ PipIdle
  /\ PatIdle
  /\ MapIdle
  /\ LintIdle
  /\ AppIdle
  /\ CycIdle
  /\ PRIdle

\* lines 951-979: return [] for a file that does not compile or has no
\* function to call
SelectFunctions ==
  /\ dpc = "select"
  /\ IF ~Compiles(module)
     THEN /\ dpc' = "done"
          /\ UNCHANGED func_names
     ELSE /\ func_names' = FuncNames(module)
          /\ dpc' = IF func_names' = <<>> THEN "done" ELSE "load"
  /\ UNCHANGED <<module, call_i, elapsed, stdout, writer, calls, dyn_errors, notDyn>>

\* runner lines 989-998: execute the module; the first exception is printed
\* and the subprocess exits
LoadModule ==
  /\ dpc = "load"
  /\ LET failing == LoadFailures(module)
         k == CHOOSE j \in failing : \A m \in failing : j <= m
     IN  IF failing # {}
         THEN /\ stdout' = <<Record(HeaderLine(k), "ModuleNotFoundError", "No module named 'nosuchmod'")>>
              /\ writer' = <<0>>
              /\ dpc' = "parse"
              /\ UNCHANGED call_i
         ELSE /\ dpc' = "calls"
              /\ call_i' = 1
              /\ UNCHANGED <<stdout, writer>>
  /\ UNCHANGED <<module, func_names, elapsed, calls, dyn_errors, notDyn>>

\* runner lines 1007-1030: one iteration of `for fname in func_names` that
\* passes the budget test.  Every call that the alarm ends adds more than
\* AlarmSecs to the clock and the others add less than a second, so
\* `time.monotonic() - _BUDGET_START > _BUDGET_SECS` holds from the moment
\* the whole seconds spent in such calls reach BudgetSecs.  A call that
\* never ends makes subprocess.run raise TimeoutExpired, and _run_command
\* then returns an empty stdout.
CallNext ==
  /\ dpc = "calls"
  /\ call_i <= Len(func_names)
  /\ elapsed < BudgetSecs
  /\ LET fname == func_names[call_i]
         b == Binding(module, fname)
         r == CallResult(module, b)
         n == Len(calls) + 1
         printed == IF r.ending = "raise"
                    THEN Append(r.prints, Record(r.line, r.exc, r.msg))
                    ELSE r.prints
     IN  IF ~Callable(module, b)
         THEN /\ call_i' = call_i + 1
              /\ UNCHANGED <<elapsed, stdout, writer, calls, dpc>>
         ELSE /\ calls' = Append(calls, [name |-> fname, node |-> b, ending |-> r.ending])
              /\ IF r.ending = "hang"
                 THEN /\ stdout' = <<>>
                      /\ writer' = <<>>
                      /\ dpc' = "parse"
                      /\ UNCHANGED <<call_i, elapsed>>
                 ELSE /\ stdout' = stdout \o printed
                      /\ writer' = writer \o [j \in 1..Len(printed) |-> n]
                      /\ elapsed' = IF r.ending = "TimeoutError"
                                    THEN elapsed + AlarmSecs ELSE elapsed
                      /\ call_i' = call_i + 1
                      /\ UNCHANGED dpc
  /\ UNCHANGED <<module, func_names, dyn_errors, notDyn>>

\* the loop ends: every name was visited, or the budget test breaks out
RunnerExit ==
  /\ dpc = "calls"
  /\ call_i > Len(func_names) \/ elapsed >= BudgetSecs
  /\ dpc' = "parse"
  /\ UNCHANGED <<module, func_names, call_i, elapsed, stdout, writer, calls, dyn_errors, notDyn>>

\* lines 1039-1064
ParseOutput ==
  /\ dpc = "parse"
  /\ dyn_errors' = ParseLines(stdout, 1, {}, <<>>)
  /\ dpc' = "done"
  /\ UNCHANGED <<module, func_names, call_i, elapsed, stdout, writer, calls, notDyn>>

DynNext == SelectFunctions \/ LoadModule \/ CallNext \/ RunnerExit \/ ParseOutput

SpecDynamic == DynInit /\ [][DynNext]_vars

(***************************************************************************)
(* detect_and_fix, apply_fix and commit_and_push.                          *)
(*                                                                         *)
(* The repository holds one target file, a.py.  A Fix is the FixResult     *)
(* object: file, bug_type, line and status; the objects of the list        *)
(* detect_and_fix returns are the ones apply_fix changes.  The outcome of  *)
(* the file system at each call is an input of the call.                   *)
(***************************************************************************)
MaxFixList == 2
MaxCalls == 2

\* ThreadPoolExecutor(max_workers=min(8, len(errors)))
PoolCap == 8

\* the lines of a.py before any fix is applied
InitialFileLen == 2

\* the lists run_comprehensive_analysis can return for the repository: one
\* Finding per (file, line) key, at a line of the file or just past its end
FixFindings ==
  [file : {PathA}, line : {1, InitialFileLen + 1}, type : {"SYNTAX", "LOGIC"}]

AnalysisLists ==
  {l \in SeqsUpTo(FixFindings, MaxFixList) :
     \A i, j \in 1..Len(l) : (l[i].file = l[j].file /\ l[i].line = l[j].line) => i = j}

\* _make_fix without `status="DETECTED"`: the dataclass default
make_fix_DefaultStatus(error) ==
  [file |-> error.file, bug_type |-> error.type, line |-> error.line, status |-> "PENDING"]

\* _make_fix (lines 1278-1292)
make_fix(error) ==
  [file |-> error.file, bug_type |-> error.type, line |-> error.line, status |-> "DETECTED"]

IOOutcomes == {"ok", "read_error", "write_error"}

\* apply_fix (lines 1308-1340) on one Fix: does it raise, what it returns, the
\* status it leaves and the lines of the file after it.  The inserted element
\* "\n# AI-FIX ...\n" adds two lines to the file.
apply_fix(fix, has_clone, exists, len, io) ==
  IF ~has_clone
  THEN [raised |-> TRUE, ret |-> FALSE, status |-> fix.status, len |-> len]
  ELSE IF ~exists
  THEN [raised |-> FALSE, ret |-> FALSE, status |-> fix.status, len |-> len]
  ELSE IF io = "read_error"
  THEN [raised |-> FALSE, ret |-> FALSE, status |-> "FAILED", len |-> len]
  ELSE IF fix.line <= len
  THEN IF io = "write_error"
       THEN [raised |-> FALSE, ret |-> FALSE, status |-> "FAILED", len |-> len]
       ELSE [raised |-> FALSE, ret |-> TRUE, status |-> "APPLIED", len |-> len + 2]
  ELSE [raised |-> FALSE, ret |-> FALSE, status |-> fix.status, len |-> len]

\* the record kept of a call
CallRecord(op, k, fix, len, io, r) ==
  [op |-> op, fix |-> k, line |-> fix.line, len_before |-> len, io |-> io,
   status_before |-> fix.status, status_after |-> r.status,
   ret |-> r.ret, raised |-> r.raised]

NoCall ==
  [op |-> "none", fix |-> 0, line |-> 0, len_before |-> 0, io |-> "ok",
   status_before |-> "", status_after |-> "", ret |-> FALSE, raised |-> FALSE]

\* the loop `for fix in fixes: self.apply_fix(fix)` from the k-th Fix on: the
\* list and the file's lines after it
RECURSIVE ApplyAll(_, _, _, _, _)
ApplyAll(fixes, k, exists, len, ios) ==
  IF k > Len(fixes) THEN [fixes |-> fixes, len |-> len]
  ELSE LET r == apply_fix(fixes[k], TRUE, exists, len, ios[k])
       IN  ApplyAll([fixes EXCEPT ![k].status = r.status], k + 1, exists, r.len, ios)

FixInit ==
  /\ clone_set \in BOOLEAN
  /\ analysis \in AnalysisLists
  /\ fpc = "init"
  /\ started = {}
  /\ completed = <<>>
  /\ results = <<>>
  /\ file_exists \in BOOLEAN
  /\ file_len = InitialFileLen
  /\ last_call = NoCall
  /\ ncalls = 0
  /\ ClsIdle
  /\ AggIdle
  /\ SynIdle
  /\ DynIdle
  /\ PipIdle
  /\ PatIdle
  /\ MapIdle
  /\ LintIdle
  /\ AppIdle
  /\ CycIdle
  /\ PRIdle

\* the list run_comprehensive_analysis returns (lines 1115-1117: empty when
\* clone_path is unset)
AnalysisErrors == IF clone_set THEN analysis ELSE <<>>

\* detect_and_fix, lines 1271-1298: no error, or every task submitted
DetectAndFix ==
  /\ fpc = "init"
  /\ IF AnalysisErrors = <<>>
     THEN /\ results' = <<>>
          /\ fpc' = "ready"
     ELSE /\ fpc' = "pool"
          /\ UNCHANGED results
  /\ UNCHANGED <<clone_set, analysis, started, completed, file_exists, file_len, last_call, ncalls, notFix>>

\* a worker of the pool takes the next task: tasks start in submission order,
\* at most min(PoolCap, len(errors)) at a time
StartFix ==
  /\ fpc = "pool"
  /\ Cardinality(started) < Len(AnalysisErrors)
  /\ Cardinality(started) - Len(completed)
       < (IF PoolCap < Len(AnalysisErrors) THEN PoolCap ELSE Len(AnalysisErrors))
  /\ started' = started \cup {Cardinality(started) + 1}
  /\ UNCHANGED <<clone_set, analysis, fpc, completed, results, file_exists, file_len, last_call, ncalls, notFix>>

\* a running task completes: as_completed yields it next
FinishFix ==
  /\ fpc = "pool"
  /\ \E k \in started :
       /\ \A j \in 1..Len(completed) : completed[j] # k
       /\ completed' = Append(completed, k)
  /\ UNCHANGED <<clone_set, analysis, fpc, started, results, file_exists, file_len, last_call, ncalls, notFix>>

\* lines 1299-1306: the Fixes in completion order
CollectFixes ==
  /\ fpc = "pool"
  /\ Len(completed) = Len(AnalysisErrors)
  /\ results' = [j \in 1..Len(completed) |-> make_fix(AnalysisErrors[completed[j]])]
  /\ fpc' = "ready"
  /\ UNCHANGED <<clone_set, analysis, started, completed, file_exists, file_len, last_call, ncalls, notFix>>

\* one call of apply_fix on a Fix of the list
ApplyFix ==
  /\ fpc = "ready"
  /\ ncalls < MaxCalls
  /\ \E k \in 1..Len(results), io \in IOOutcomes :
       LET r == apply_fix(results[k], clone_set, file_exists, file_len, io)
       IN  /\ results' = [results EXCEPT ![k].status = r.status]
           /\ file_len' = r.len
           /\ last_call' = CallRecord("apply_fix", k, results[k], file_len, io, r)
  /\ ncalls' = ncalls + 1
  /\ UNCHANGED <<clone_set, analysis, fpc, started, completed, file_exists, notFix>>

\* one call of commit_and_push on the list (lines 1342-1411): it raises
\* without a clone_path; otherwise it applies every Fix and its result is
\* the outcome of the git commands
CommitAndPush ==
  /\ fpc = "ready"
  /\ ncalls < MaxCalls
  /\ IF ~clone_set
     THEN /\ last_call' = [NoCall EXCEPT !.op = "commit_and_push", !.raised = TRUE]
          /\ UNCHANGED <<results, file_len>>
     ELSE \E ios \in [1..Len(results) -> IOOutcomes], git_ok \in BOOLEAN :
            LET a == ApplyAll(results, 1, file_exists, file_len, ios)
            IN  /\ results' = a.fixes
                /\ file_len' = a.len
                /\ last_call' = [NoCall EXCEPT !.op = "commit_and_push", !.ret = git_ok]
  /\ ncalls' = ncalls + 1
  /\ UNCHANGED <<clone_set, analysis, fpc, started, completed, file_exists, notFix>>

FixNext ==
  DetectAndFix \/ StartFix \/ FinishFix \/ CollectFixes \/ ApplyFix \/ CommitAndPush

SpecFix == FixInit /\ [][FixNext]_vars

(***************************************************************************)
(* run_comprehensive_analysis as a pipeline: the four static scanners run  *)
(* as tasks of one pool, then run_dynamic_analysis runs one task per file  *)
(* and collects them as they complete, then the combined list is           *)
(* deduplicated and truncated.                                             *)
(*                                                                         *)
(* A repository is two files, each of one of six kinds; what each scanner  *)
(* does on a file of each kind is what the code does on:                   *)
(*   clean            def f(): return 1                                    *)
(*   syntax_error     def f(:        (and an indented body line)           *)
(*   unused_import    import os                                            *)
(*   zero_div         def f(): return 1 / 0                                *)
(*   runtime_error    def f(): return {}['k']                              *)
(*   parser_overflow  x = ----...1   (compile() raises MemoryError)        *)
(***************************************************************************)
PathB == <<"b.py">>

\* get_python_files(): the files in the order every scanner visits them
python_files == <<PathA, PathB>>

FileKinds ==
  {"clean", "syntax_error", "unused_import", "zero_div", "runtime_error", "parser_overflow"}

StaticScanners == <<"syntax", "regex", "lint", "static">>

Scanners == {StaticScanners[i] : i \in 1..Len(StaticScanners)}

PipFinding(fp, line, type) == [file |-> fp, line |-> line, type |-> type]

\* the body of a scanner's per-file loop on one file: the exception raised
\* in it ("" when none) and the Findings appended before it
ScanOne(s, kind, fp) ==
  CASE s = "syntax" /\ kind = "syntax_error" ->
         [exc |-> "", findings |-> <<PipFinding(fp, 1, "SYNTAX"), PipFinding(fp, 2, "INDENTATION")>>]
    [] s = "syntax" /\ kind = "parser_overflow" ->
         [exc |-> "MemoryError", findings |-> <<>>]
    [] s = "regex" /\ kind = "unused_import" ->
         [exc |-> "", findings |-> <<PipFinding(fp, 1, "IMPORT")>>]
    [] s = "regex" /\ kind = "zero_div" ->
         [exc |-> "", findings |-> <<PipFinding(fp, 2, "LOGIC")>>]
    [] s = "lint" /\ kind = "unused_import" ->
         [exc |-> "", findings |-> <<PipFinding(fp, 1, "LINTING")>>]
    [] s = "lint" /\ kind = "syntax_error" ->
         [exc |-> "SyntaxError", findings |-> <<>>]
    [] s = "static" /\ kind = "unused_import" ->
         [exc |-> "", findings |-> <<PipFinding(fp, 1, "IMPORT")>>]
    [] s = "static" /\ kind = "zero_div" ->
         [exc |-> "", findings |-> <<PipFinding(fp, 2, "LOGIC")>>]
    [] s = "static" /\ kind = "syntax_error" ->
         [exc |-> "SyntaxError", findings |-> <<>>]
    [] s \in {"lint", "static"} /\ kind = "parser_overflow" ->
         [exc |-> "MemoryError", findings |-> <<>>]
    [] s = "dynamic" /\ kind = "zero_div" ->
         [exc |-> "", findings |-> <<PipFinding(fp, 2, map_exception_to_bug_type("ZeroDivisionError"))>>]
    [] s = "dynamic" /\ kind = "runtime_error" ->
         [exc |-> "", findings |-> <<PipFinding(fp, 2, map_exception_to_bug_type("KeyError"))>>]
    [] OTHER -> [exc |-> "", findings |-> <<>>]

\* does the scanner's per-file loop catch the exception?  run_syntax_check
\* has handlers for OSError, IndentationError, TokenError and SyntaxError
\* only; the other loops end in `except Exception`.
Catches(s, exc) ==
  IF s = "syntax"
  THEN exc \in {"", "OSError", "IndentationError", "TokenError", "SyntaxError"}
  ELSE TRUE

\* a scanner from its i-th file on, acc being its list `errors` so far: the list
\* it returns, or the exception that ends it
RECURSIVE RunScanner(_, _, _, _)
RunScanner(s, kinds, i, acc) ==
  IF i > Len(python_files) THEN [raised |-> FALSE, findings |-> acc]
  ELSE LET r == ScanOne(s, kinds[i], python_files[i])
       IN  IF Catches(s, r.exc)
           THEN RunScanner(s, kinds, i + 1, acc \o r.findings)
           ELSE [raised |-> TRUE, findings |-> <<>>]

\* the `with` block of lines 1121-1130 is left when every task of the pool
\* has completed: the four result() calls and the pool's shutdown wait
PoolLeftAtOnce(sc) == TRUE

PoolDrained(sc) == \A s \in Scanners : sc[s] \in {"done", "raised"}

\* min(4, len(python_files))
DynamicWorkers == IF 4 < Len(python_files) THEN 4 ELSE Len(python_files)

PipMaxFixes == {0, 1, 2, DefaultMaxFixes}

PipInit ==
  /\ repo \in [1..Len(python_files) -> FileKinds]
  /\ scanner = [s \in Scanners |-> "new"]
  /\ ppc = "init"
  /\ dyn_started = {}
  /\ dyn_completed = <<>>
  /\ dynamic_errors = <<>>
  /\ outcome = "none"
  /\ all_errors = <<>>
  /\ unique_errors = <<>>
  /\ returned = <<>>
  /\ returned_again = <<>>
  /\ max_fixes \in PipMaxFixes
  /\ apc = "pipeline"
  /\ ClsIdle
  /\ SynIdle
  /\ DynIdle
  /\ FixIdle
  /\ PatIdle
  /\ MapIdle
  /\ LintIdle
  /\ AppIdle
  /\ CycIdle
  /\ PRIdle

\* lines 1121-1125: the four tasks are submitted
SubmitScanners ==
  /\ ppc = "init"
  /\ scanner' = [s \in Scanners |-> "queued"]
  /\ ppc' = "static"
  /\ UNCHANGED <<repo, dyn_started, dyn_completed, dynamic_errors, outcome, aggVars, notPip>>

\* a worker of the pool starts a scanner
ScannerStart ==
  /\ \E s \in Scanners :
       /\ scanner[s] = "queued"
       /\ scanner' = [scanner EXCEPT ![s] = "running"]
  /\ UNCHANGED <<repo, ppc, dyn_started, dyn_completed, dynamic_errors, outcome, aggVars, notPip>>

\* a scanner returns its list or ends in an exception
ScannerFinish ==
  /\ \E s \in Scanners :
       /\ scanner[s] = "running"
       /\ scanner' = [scanner EXCEPT ![s] =
                        IF RunScanner(s, repo, 1, <<>>).raised THEN "raised" ELSE "done"]
  /\ UNCHANGED <<repo, ppc, dyn_started, dyn_completed, dynamic_errors, outcome, aggVars, notPip>>

\* lines 1127-1136: the results are taken and the `with` block is left; an
\* exception of a scanner leaves run_comprehensive_analysis, otherwise the
\* four lists are appended in the fixed order
LeavePool ==
  /\ ppc = "static"
  /\ PoolDrained(scanner)
  /\ IF \E s \in Scanners : RunScanner(s, repo, 1, <<>>).raised
     THEN /\ outcome' = "raised"
          /\ ppc' = "end"
          /\ UNCHANGED all_errors
     ELSE /\ all_errors' =
               RunScanner("syntax", repo, 1, <<>>).findings
                 \o RunScanner("regex", repo, 1, <<>>).findings
                 \o RunScanner("lint", repo, 1, <<>>).findings
                 \o RunScanner("static", repo, 1, <<>>).findings
          /\ ppc' = "dynamic"
          /\ UNCHANGED outcome
  /\ UNCHANGED <<repo, scanner, dyn_started, dyn_completed, dynamic_errors,
                 unique_errors, returned, returned_again, max_fixes, apc, notPip>>

\* run_dynamic_analysis, lines 1091-1096: a worker takes the next file, in
\* the order of submission
DynamicStart ==
  /\ ppc = "dynamic"
  /\ Cardinality(dyn_started) < Len(python_files)
  /\ Cardinality(dyn_started) - Len(dyn_completed) < DynamicWorkers
  /\ dyn_started' = dyn_started \cup {Cardinality(dyn_started) + 1}
  /\ UNCHANGED <<repo, scanner, ppc, dyn_completed, dynamic_errors, outcome, aggVars, notPip>>

\* lines 1099-1105: a file's task completes and as_completed hands it over;
\* its Findings are appended, its exception is logged
DynamicFinish ==
  /\ ppc = "dynamic"
  /\ \E i \in dyn_started :
       /\ \A j \in 1..Len(dyn_completed) : dyn_completed[j] # i
       /\ dyn_completed' = Append(dyn_completed, i)
       /\ dynamic_errors' =
            dynamic_errors \o ScanOne("dynamic", repo[i], python_files[i]).findings
  /\ UNCHANGED <<repo, scanner, ppc, dyn_started, outcome, aggVars, notPip>>

\* lines 1107-1108 and 1140-1141: run_dynamic_analysis returns its list
DynamicReturn ==
  /\ ppc = "dynamic"
  /\ Len(dyn_completed) = Len(python_files)
  /\ all_errors' = all_errors \o dynamic_errors
  /\ ppc' = "aggregate"
  /\ UNCHANGED <<repo, scanner, dyn_started, dyn_completed, dynamic_errors, outcome,
                 unique_errors, returned, returned_again, max_fixes, apc, notPip>>

\* lines 1143-1170
AggregateAndReturn ==
  /\ ppc = "aggregate"
  /\ unique_errors' = Dedup(all_errors)
  /\ returned' = Islice(unique_errors', max_fixes)
  /\ outcome' = "returned"
  /\ ppc' = "end"
  /\ UNCHANGED <<repo, scanner, dyn_started, dyn_completed, dynamic_errors,
                 all_errors, returned_again, max_fixes, apc, notPip>>

PipNext ==
  \/ SubmitScanners
  \/ ScannerStart
  \/ ScannerFinish
  \/ LeavePool
  \/ DynamicStart
  \/ DynamicFinish
  \/ DynamicReturn
  \/ AggregateAndReturn

SpecPipeline == PipInit /\ [][PipNext]_vars

(***************************************************************************)
(* run_regex_pattern_detection on the lines of one file.  A line is a      *)
(* sequence of characters; the lines are assignments of a quotient or a    *)
(* remainder, `r = n <op> <literal>`, indented or commented out or         *)
(* followed by more of the expression, and blank lines.  None of the       *)
(* scanner's other patterns (imports, block keywords, conditions, string   *)
(* concatenation, print, except, comparisons to None) occurs in them.      *)
(***************************************************************************)
MaxPatLines == 1

Operators == {<<"/">>, <<"/", "/">>, <<"%">>}

ZeroLiteral == <<"0">>

NonZeroLiterals == {<<"0", ".", "5">>, <<"5">>, <<"0", "x", "1">>}

\* the float zero, and a name
OtherOperands == {<<"0", ".", "0">>, <<"d">>}

Prefixes == {<<>>, <<" ", " ">>, <<"#", " ">>}

PatLineShapes ==
  [prefix : Prefixes, op : Operators, gap : {<<>>, <<" ">>},
   right : {ZeroLiteral} \cup NonZeroLiterals \cup OtherOperands,
   rest : {<<>>, <<" ", "+", " ", "1">>}]

\* the characters of a line, without its newline
Chars(shape) ==
  shape.prefix \o <<"r", " ", "=", " ", "n", " ">> \o shape.op \o shape.gap
    \o shape.right \o shape.rest

BlankLine == <<" ">>

PatLines == {Chars(sh) : sh \in PatLineShapes} \cup {BlankLine}

IsSpace(c) == c \in {" ", "\t"}

\* \w
IsWordChar(c) == c \in {"r", "n", "d", "x", "0", "1", "5", "_"}

\* str.strip()
RECURSIVE lstrip(_)
lstrip(s) == IF s # <<>> /\ IsSpace(Head(s)) THEN lstrip(Tail(s)) ELSE s

RECURSIVE rstrip(_)
rstrip(s) ==
  IF s # <<>> /\ IsSpace(s[Len(s)]) THEN rstrip(SubSeq(s, 1, Len(s) - 1)) ELSE s

strip(s) == rstrip(lstrip(s))

\* the first index from i on that holds no white space (Len(s) + 1 if none)
RECURSIVE SkipSpaces(_, _)
SkipSpaces(s, i) ==
  IF i <= Len(s) /\ IsSpace(s[i]) THEN SkipSpaces(s, i + 1) ELSE i

\* r'/\s*0(?!\.)(?:\b|$)' matched at index i: a slash, white space, a 0 that
\* is followed by neither a dot nor a word character
DivZeroAt(s, i) ==
  /\ s[i] = "/"
  /\ LET j == SkipSpaces(s, i + 1)
     IN  /\ j <= Len(s)
         /\ s[j] = "0"
         /\ (j = Len(s) \/ (s[j + 1] # "." /\ ~IsWordChar(s[j + 1])))

\* re.search(r'/\s*0(?!\.)(?:\b|$)', stripped)
SearchDivZero(stripped) == \E i \in 1..Len(stripped) : DivZeroAt(stripped, i)

\* `if not stripped or stripped.startswith('#'): continue`
Skipped(stripped) == stripped = <<>> \/ Head(stripped) = "#"

\* the Findings the loop body appends for one line (lines 781-904)
ScanLine(lineno, raw_line) ==
  LET stripped == strip(raw_line)
  IN  IF Skipped(stripped) THEN <<>>
      ELSE IF SearchDivZero(stripped)
      THEN <<[file |-> PathA, line |-> lineno, type |-> "LOGIC", source |-> "regex"]>>
      ELSE <<>>

PatInit ==
  /\ pat_lines \in SeqsUpTo(PatLines, MaxPatLines) \ {<<>>}
  /\ pat_lineno = 0
  /\ pattern_errors = <<>>
  /\ patpc = "scan"
  /\ ClsIdle
  /\ AggIdle
  /\ SynIdle
  /\ DynIdle
  /\ FixIdle
  /\ PipIdle
  /\ MapIdle
  /\ LintIdle
  /\ AppIdle
  /\ CycIdle
  /\ PRIdle

\* one iteration of `for lineno, raw_line in enumerate(raw_lines, 1)`
PatternScanLine ==
  /\ patpc = "scan"
  /\ pat_lineno < Len(pat_lines)
  /\ pat_lineno' = pat_lineno + 1
  /\ pattern_errors' = pattern_errors \o ScanLine(pat_lineno', pat_lines[pat_lineno'])
  /\ UNCHANGED <<pat_lines, patpc, notPat>>

\* lines 906-908
PatternReturn ==
  /\ patpc = "scan"
  /\ pat_lineno = Len(pat_lines)
  /\ patpc' = "returned"
  /\ UNCHANGED <<pat_lines, pat_lineno, pattern_errors, notPat>>

PatNext == PatternScanLine \/ PatternReturn

SpecPattern == PatInit /\ [][PatNext]_vars

(***************************************************************************)
(* The classifier applied to bounded messages: a message is a              *)
(* concatenation of at most MaxFragments fragments.                        *)
(***************************************************************************)
MaxFragments == 2

Fragments ==
  {
    \* "f401"
    <<"f", "4", "0", "1">>,
    \* "F811"
    <<"F", "8", "1", "1">>,
    \* "unused"
    <<"u", "n", "u", "s", "e", "d">>,
    \* "Expected"
    <<"E", "x", "p", "e", "c", "t", "e", "d">>,
    \* " an indented block"
    <<" ", "a", "n", " ", "i", "n", "d", "e", "n", "t", "e", "d", " ", "b", "l", "o", "c", "k">>,
    \* "TypeError"
    <<"T", "y", "p", "e", "E", "r", "r", "o", "r">>,
    \* "zerodivisionerror"
    <<"z", "e", "r", "o", "d", "i", "v", "i", "s", "i", "o", "n", "e", "r", "r", "o", "r">>,
    \* "No module named"
    <<"N", "o", " ", "m", "o", "d", "u", "l", "e", " ", "n", "a", "m", "e", "d">>,
    \* "e"
    <<"e">>,
    \* "1"
    <<"1">>,
    \* "w"
    <<"w">>,
    \* "q"
    <<"q">>
  }

RECURSIVE MessagesOf(_)
MessagesOf(n) ==
  IF n = 0 THEN {<<>>}
  ELSE MessagesOf(n - 1) \cup {m \o f : m \in MessagesOf(n - 1), f \in Fragments}

Messages == MessagesOf(MaxFragments)

ClassifierInit ==
  /\ error_msg \in Messages
  /\ bug_type = "none"
  /\ cpc = "call"
  /\ AggIdle
  /\ SynIdle
  /\ DynIdle
  /\ FixIdle
  /\ PipIdle
  /\ PatIdle
  /\ MapIdle
  /\ LintIdle
  /\ AppIdle
  /\ CycIdle
  /\ PRIdle

Classify ==
  /\ cpc = "call"
  /\ bug_type' = determine_bug_type(error_msg)
  /\ cpc' = "returned"
  /\ UNCHANGED <<error_msg, notCls>>

SpecClassifier == ClassifierInit /\ [][Classify]_vars

(***************************************************************************)
(* The places where a Finding gets its category: the lint codes mapped by  *)
(* _ruff_code_to_type, the exception names mapped by                       *)
(* _map_exception_to_bug_type, the messages classified by                  *)
(* determine_bug_type, and the literals of the scanners.                   *)
(***************************************************************************)
\* str.startswith
StartsWith(s, prefix) ==
  Len(s) >= Len(prefix) /\ SubSeq(s, 1, Len(prefix)) = prefix

\* _ruff_code_to_type (lines 510-527)
ruff_code_to_type(code) ==
  LET c == upper(code)
  IN  IF StartsWith(c, <<"E", "1">>) THEN "INDENTATION"
      ELSE IF c = <<"E", "9", "9", "9">> \/ StartsWith(c, <<"E", "9">>) THEN "SYNTAX"
      ELSE IF c \in {<<"F", "4", "0", "1">>, <<"F", "8", "1", "1">>} THEN "IMPORT"
      ELSE IF StartsWith(c, <<"F">>) THEN "LINTING"
      ELSE "LINTING"

\* codes of ruff, flake8 and pyflakes, in either case, and the empty code
LintCodes ==
  {<<l>> \o t : l \in {"E", "F", "W", "e", "f"},
                t \in {<<"1", "0", "1">>, <<"9", "9", "9">>, <<"9", "0", "2">>,
                       <<"4", "0", "1">>, <<"8", "1", "1">>, <<"8", "4", "1">>,
                       <<"5", "0", "1">>, <<"2", "9", "1">>}}
    \cup {<<>>}

\* the keys of the table of _map_exception_to_bug_type
TableNames ==
  {"IndentationError", "TabError", "SyntaxError", "ImportError",
   "ModuleNotFoundError", "TypeError", "UnicodeDecodeError", "UnicodeEncodeError"}
    \cup LogicExceptions

\* names the subprocess can print: those of the table, other built-in
\* exceptions and a class of the code under test
ExceptionNames ==
  TableNames \cup {"ArithmeticError", "BufferError", "EOFError", "CustomError", "Exception"}

\* the `type` literals in the scanners' Finding dictionaries
LiteralTypes == {"SYNTAX", "INDENTATION", "IMPORT", "TYPE_ERROR", "LINTING", "LOGIC"}

MapFinding(type) == [file |-> PathA, line |-> 1, type |-> type]

MapInit ==
  /\ map_site = ""
  /\ map_input = <<>>
  /\ emitted = <<>>
  /\ map_returned = <<>>
  /\ mappc = "scan"
  /\ ClsIdle
  /\ AggIdle
  /\ SynIdle
  /\ DynIdle
  /\ FixIdle
  /\ PipIdle
  /\ PatIdle
  /\ LintIdle
  /\ AppIdle
  /\ CycIdle
  /\ PRIdle

\* run_rruff_linter, lines 437-443 and 458-464
EmitLintCode ==
  /\ mappc = "scan"
  /\ \E code \in LintCodes :
       /\ map_input' = code
       /\ emitted' = <<MapFinding(ruff_code_to_type(code))>>
  /\ map_site' = "lint code"
  /\ mappc' = "emitted"
  /\ UNCHANGED <<map_returned, notMap>>

\* _analyze_single_file, lines 1053-1059
EmitException ==
  /\ mappc = "scan"
  /\ \E exc \in ExceptionNames :
       /\ map_input' = exc
       /\ emitted' = <<MapFinding(map_exception_to_bug_type(exc))>>
  /\ map_site' = "exception"
  /\ mappc' = "emitted"
  /\ UNCHANGED <<map_returned, notMap>>

\* run_syntax_check 352, run_rruff_linter 497, detect_errors 733: the
\* category of a tool's message
EmitMessage ==
  /\ mappc = "scan"
  /\ \E msg \in Messages :
       /\ map_input' = msg
       /\ emitted' = <<MapFinding(determine_bug_type(msg))>>
  /\ map_site' = "message"
  /\ mappc' = "emitted"
  /\ UNCHANGED <<map_returned, notMap>>

\* the dictionaries built with a literal `type`
EmitLiteral ==
  /\ mappc = "scan"
  /\ \E t \in LiteralTypes :
       /\ map_input' = t
       /\ emitted' = <<MapFinding(t)>>
  /\ map_site' = "literal"
  /\ mappc' = "emitted"
  /\ UNCHANGED <<map_returned, notMap>>

\* run_comprehensive_analysis: the scanner's list, deduplicated and returned
ReturnEmitted ==
  /\ mappc = "emitted"
  /\ map_returned' = Aggregate(emitted, DefaultMaxFixes)
  /\ mappc' = "returned"
  /\ UNCHANGED <<map_site, map_input, emitted, notMap>>

MapNext ==
  EmitLintCode \/ EmitException \/ EmitMessage \/ EmitLiteral \/ ReturnEmitted

SpecCategories == MapInit /\ [][MapNext]_vars

(***************************************************************************)
(* run_rruff_linter: three attempts in order, ruff, pyflakes, then the in- *)
(* process AST lint.  What is installed and what the tools print belongs   *)
(* to the environment: Init draws it.  A ruff diagnostic is the JSON       *)
(* object's "code" member: a string, null, or no member at all.            *)
(***************************************************************************)
MaxRuffItems == 2
MaxPyflakesLines == 1

RuffCodes == {<<"E", "5", "0", "1">>, <<"F", "4", "0", "1">>, <<"W", "2", "9", "1">>}

\* the JSON diagnostics: "code" a string, "code": null, or no "code"
RuffItems ==
  {[code_kind |-> "str", code |-> c] : c \in RuffCodes}
    \cup {[code_kind |-> "null", code |-> <<>>], [code_kind |-> "absent", code |-> <<>>]}

\* stdout of `ruff check . --output-format=json`: a JSON list, or text
\* lines `path.py:L:C: CODE: message` (no line at all when the run failed
\* or timed out, _run_command then hands back empty output)
RuffOutputs ==
  {[format |-> "json", items |-> q] : q \in SeqsUpTo(RuffItems, MaxRuffItems)}
    \cup {[format |-> "text", items |-> q] :
            q \in SeqsUpTo({[code_kind |-> "str", code |-> c] : c \in RuffCodes},
                           MaxRuffItems)}

\* the messages pyflakes prints, one per matching output line
PyflakesMessages ==
  {\* "unused"
   <<"u", "n", "u", "s", "e", "d">>,
   \* "q"
   <<"q">>}

PyflakesOutputs == SeqsUpTo(PyflakesMessages, MaxPyflakesLines)

\* what _run_ast_lint returns: nothing or an unused import
AstOutputs == {<<>>, <<[file |-> PathA, line |-> 1, type |-> "LINTING", source |-> "ast_lint"]>>}

LintFinding(type, source) == [file |-> PathA, line |-> 1, type |-> type, source |-> source]

\* item.get("code", ""): the member, "" when there is none
ItemCode(item) == IF item.code_kind = "absent" THEN <<>> ELSE item.code

\* lines 430-443: the loop over the JSON list; code.startswith on a null
\* code is an AttributeError, which `except json.JSONDecodeError` lets through
RECURSIVE RuffJson(_, _)
RuffJson(items, acc) ==
  IF items = <<>> THEN [raised |-> FALSE, errors |-> acc]
  ELSE IF Head(items).code_kind = "null" THEN [raised |-> TRUE, errors |-> acc]
  ELSE LET code == ItemCode(Head(items)) IN
       IF StartsWith(code, <<"E">>) \/ StartsWith(code, <<"F">>)
       THEN RuffJson(Tail(items), Append(acc, LintFinding(ruff_code_to_type(code), "ruff")))
       ELSE RuffJson(Tail(items), acc)

\* lines 447-464: the text fallback, every line carrying an E, F or W code
RECURSIVE RuffText(_)
RuffText(items) ==
  IF items = <<>> THEN <<>>
  ELSE <<LintFinding(ruff_code_to_type(Head(items).code), "ruff")>> \o RuffText(Tail(items))

\* lines 427-464: the list after the ruff attempt
RuffAttempt(out) ==
  IF out.format = "json"
  THEN RuffJson(out.items, <<>>)   \* the JSON text has no `.py:L:C: CODE:` line
  ELSE [raised |-> FALSE, errors |-> RuffText(out.items)]

\* lines 475-499
RECURSIVE PyflakesAttempt(_)
PyflakesAttempt(msgs) ==
  IF msgs = <<>> THEN <<>>
  ELSE <<LintFinding(determine_bug_type(Head(msgs)), "pyflakes")>>
         \o PyflakesAttempt(Tail(msgs))

LintInit ==
  /\ ClsIdle
  /\ AggIdle
  /\ SynIdle
  /\ DynIdle
  /\ FixIdle
  /\ PipIdle
  /\ PatIdle
  /\ MapIdle
  /\ AppIdle
  /\ CycIdle
  /\ PRIdle
  /\ ruff_present \in BOOLEAN
  /\ ruff_out \in RuffOutputs
  /\ pyflakes_present \in BOOLEAN
  /\ pyflakes_out \in PyflakesOutputs
  /\ ast_out \in AstOutputs
  /\ lint_errors = <<>>
  /\ lint_stage = ""
  /\ lint_outcome = "none"
  /\ lpc = "ruff"

\* lines 421-468, ruff installed
RuffStage ==
  /\ lpc = "ruff"
  /\ ruff_present
  /\ LET r == RuffAttempt(ruff_out) IN
       /\ lint_errors' = r.errors
       /\ IF r.raised
          THEN /\ lint_outcome' = "raised"
               /\ lint_stage' = "ruff"
               /\ lpc' = "end"
          ELSE IF r.errors # <<>>
          THEN /\ lint_outcome' = "returned"
               /\ lint_stage' = "ruff"
               /\ lpc' = "end"
          ELSE /\ lpc' = "pyflakes"
               /\ UNCHANGED <<lint_outcome, lint_stage>>
  /\ UNCHANGED <<ruff_present, ruff_out, pyflakes_present, pyflakes_out, ast_out, notLint>>

\* line 421, shutil.which("ruff") is None
RuffAbsent ==
  /\ lpc = "ruff"
  /\ ~ruff_present
  /\ lpc' = "pyflakes"
  /\ UNCHANGED <<ruff_present, ruff_out, pyflakes_present, pyflakes_out, ast_out,
                 lint_errors, lint_stage, lint_outcome, notLint>>

\* lines 473-502, pyflakes installed
PyflakesStage ==
  /\ lpc = "pyflakes"
  /\ pyflakes_present
  /\ lint_errors' = lint_errors \o PyflakesAttempt(pyflakes_out)
  /\ IF lint_errors' # <<>>
     THEN /\ lint_outcome' = "returned"
          /\ lint_stage' = "pyflakes"
          /\ lpc' = "end"
     ELSE /\ lpc' = "ast"
          /\ UNCHANGED <<lint_outcome, lint_stage>>
  /\ UNCHANGED <<ruff_present, ruff_out, pyflakes_present, pyflakes_out, ast_out, notLint>>

\* line 473, shutil.which("pyflakes") is None
PyflakesAbsent ==
  /\ lpc = "pyflakes"
  /\ ~pyflakes_present
  /\ lpc' = "ast"
  /\ UNCHANGED <<ruff_present, ruff_out, pyflakes_present, pyflakes_out, ast_out,
                 lint_errors, lint_stage, lint_outcome, notLint>>

\* lines 505-508
AstStage ==
  /\ lpc = "ast"
  /\ lint_errors' = lint_errors \o ast_out
  /\ lint_stage' = "ast_lint"
  /\ lint_outcome' = "returned"
  /\ lpc' = "end"
  /\ UNCHANGED <<ruff_present, ruff_out, pyflakes_present, pyflakes_out, ast_out, notLint>>

LintNext == RuffStage \/ RuffAbsent \/ PyflakesStage \/ PyflakesAbsent \/ AstStage

SpecLint == LintInit /\ [][LintNext]_vars

(***************************************************************************)
(* apply_fix on the content of one file.  The file on disk is a sequence   *)
(* of physical lines, each a text and a line terminator; commit_and_push   *)
(* calls apply_fix once per Fix, in list order, on the same file.          *)
(***************************************************************************)
MaxFileLines == 2
MaxApplied == 2

\* the text of source line n, of the comment of Fix k, of an empty line
SourceText(n) == <<"L", n>>
CommentText(k) == <<"# AI-FIX", k>>
BlankText == <<"", 0>>

\* a file of n lines ending in eol, the last one terminated or not
FileOf(n, eol, terminated) ==
  [i \in 1..n |-> [text |-> SourceText(i),
                   eol |-> IF i = n /\ ~terminated THEN "" ELSE eol]]

SourceFiles ==
  {FileOf(n, eol, t) : n \in 0..MaxFileLines, eol \in {"\n", "\r\n"}, t \in BOOLEAN}

\* Finding lines: 0 is what run_syntax_check records when py_compile names
\* no line; MaxFileLines + 1 is past the end of every file
FixLines == 0..(MaxFileLines + 1)

FixLists ==
  {l \in SeqsUpTo([line : FixLines, status : {"DETECTED"}], MaxApplied) : l # <<>>}

\* open(file_path, 'r').readlines(): text mode gives every terminator as "\n"
readlines(file) ==
  [i \in 1..Len(file) |-> [text |-> file[i].text,
                           eol |-> IF file[i].eol = "" THEN "" ELSE "\n"]]

\* list.insert(i, x): a negative index counts from the end, both ends clamp
InsertIndex(i, n) ==
  IF i < 0 THEN (IF n + i < 0 THEN 0 ELSE n + i)
  ELSE IF i > n THEN n ELSE i

\* the element "\n# AI-FIX (...): ...\n" is two physical lines once written
CommentElement(k) ==
  <<[text |-> BlankText, eol |-> "\n"], [text |-> CommentText(k), eol |-> "\n"]>>

list_insert(lines, i, elem) ==
  LET at == InsertIndex(i, Len(lines)) IN
    SubSeq(lines, 1, at) \o elem \o SubSeq(lines, at + 1, Len(lines))

\* lines 1318-1340 for Fix number k, the file existing: `readable` is
\* whether open/readlines succeed (a directory, bytes that do not decode)
ApplyFixToFile(file, fix, k, readable) ==
  IF ~readable
  THEN [file |-> file, status |-> "FAILED", ret |-> FALSE]
  ELSE LET lines == readlines(file) IN
       IF fix.line <= Len(lines)
       THEN [file |-> list_insert(lines, fix.line - 1, CommentElement(k)),
             status |-> "APPLIED", ret |-> TRUE]
       ELSE [file |-> file, status |-> fix.status, ret |-> FALSE]

AppInit ==
  /\ ClsIdle
  /\ AggIdle
  /\ SynIdle
  /\ DynIdle
  /\ FixIdle
  /\ PipIdle
  /\ PatIdle
  /\ MapIdle
  /\ LintIdle
  /\ CycIdle
  /\ PRIdle
  /\ app_orig \in SourceFiles
  /\ app_file = app_orig
  /\ app_prev = app_orig
  /\ app_fixes \in FixLists
  /\ app_rets = <<>>
  /\ app_i = 0
  /\ app_pc = "loop"

\* line 1349, one iteration: self.apply_fix(fix)
ApplyNextFix ==
  /\ app_pc = "loop"
  /\ app_i < Len(app_fixes)
  /\ \E readable \in BOOLEAN :
       LET k == app_i + 1
           r == ApplyFixToFile(app_file, app_fixes[k], k, readable)
       IN /\ app_prev' = app_file
          /\ app_file' = r.file
          /\ app_fixes' = [app_fixes EXCEPT ![k].status = r.status]
          /\ app_rets' = Append(app_rets, r.ret)
          /\ app_i' = k
  /\ UNCHANGED <<app_orig, app_pc, notApp>>

\* lines 1348-1350: the loop is over
ApplyLoopEnds ==
  /\ app_pc = "loop"
  /\ app_i = Len(app_fixes)
  /\ app_pc' = "applied"
  /\ UNCHANGED <<app_file, app_orig, app_prev, app_fixes, app_rets, app_i, notApp>>

AppNext == ApplyNextFix \/ ApplyLoopEnds

SpecApply == AppInit /\ [][AppNext]_vars

(***************************************************************************)
(* run_full_cycle: clone_and_branch, detect_and_fix, commit_and_push,      *)
(* create_pull_request, and the results dictionary it returns.  The log    *)
(* records, in order, the start and return of the analysis, every          *)
(* apply_fix call and every write to a source file of the working copy.    *)
(***************************************************************************)
\* the results dictionary of lines 1486-1493; pr_created 0 stands for None
InitialResults ==
  [success |-> FALSE, errors_detected |-> 0, fixes_applied |-> 0,
   pr_created |-> 0, error |-> FALSE]

\* what detect_and_fix can return for the one source file
DetectedLists == SeqsUpTo([line : FixLines, status : {"DETECTED"}], MaxApplied)

\* a line the code under test appends to its own source file
WrittenLine == [text |-> <<"W", 0>>, eol |-> "\n"]

\* git status empty, git commit failing, git push failing, push done
GitOutcomes == {"no_changes", "commit_fails", "push_fails", "pushed"}

\* lines 1348-1350 from Fix number k on: the file, the Fixes and the log
\* after the loop, `readable` telling for each call whether the read works
RECURSIVE ApplyLoop(_, _, _, _, _)
ApplyLoop(file, fixes, log, k, readable) ==
  IF k > Len(fixes) THEN [file |-> file, fixes |-> fixes, log |-> log]
  ELSE LET r == ApplyFixToFile(file, fixes[k], k, readable[k]) IN
       ApplyLoop(r.file,
                 [fixes EXCEPT ![k].status = r.status],
                 log \o <<"call:apply_fix">>
                     \o (IF r.ret THEN <<"write:apply_fix">> ELSE <<>>),
                 k + 1, readable)

\* commit_and_push's return value, lines 1359-1411
CommitReturn(git) == git \in {"no_changes", "pushed"}

CycInit ==
  /\ ClsIdle
  /\ AggIdle
  /\ SynIdle
  /\ DynIdle
  /\ FixIdle
  /\ PipIdle
  /\ PatIdle
  /\ MapIdle
  /\ LintIdle
  /\ AppIdle
  /\ PRIdle
  /\ cyc_pc = "clone"
  /\ cyc_results = InitialResults
  /\ cyc_fixes = <<>>
  /\ cyc_found \in DetectedLists
  /\ cyc_file \in {FileOf(n, "\n", TRUE) : n \in 0..MaxFileLines}
  \* only a file that has code can write
  /\ cyc_repo_writes \in (IF cyc_file = <<>> THEN {FALSE} ELSE BOOLEAN)
  /\ cyc_commit = "none"
  /\ cyc_log = <<>>

\* line 1501; an exception goes to the handler of lines 1543-1549
CycClone ==
  /\ cyc_pc = "clone"
  /\ \E ok \in BOOLEAN :
       IF ok
       THEN /\ cyc_pc' = "detect"
            /\ UNCHANGED cyc_results
       ELSE /\ cyc_pc' = "returned"
            /\ cyc_results' = [cyc_results EXCEPT !.error = TRUE]
  /\ UNCHANGED <<cyc_fixes, cyc_found, cyc_file, cyc_repo_writes, cyc_commit, cyc_log, notCyc>>

\* lines 1507-1530: detect_and_fix runs every scanner; the dynamic one
\* loads the repository's modules and calls their functions with the
\* working copy as current directory
CycDetect ==
  /\ cyc_pc = "detect"
  /\ \E raises \in BOOLEAN :
       /\ cyc_file' = IF cyc_repo_writes THEN Append(cyc_file, WrittenLine) ELSE cyc_file
       /\ cyc_log' = cyc_log \o <<"analysis_started">>
                       \o (IF cyc_repo_writes THEN <<"write:code_under_test">> ELSE <<>>)
                       \o (IF raises THEN <<>> ELSE <<"analysis_returned">>)
       /\ IF raises
          THEN /\ cyc_results' = [cyc_results EXCEPT !.error = TRUE]
               /\ cyc_pc' = "returned"
               /\ UNCHANGED cyc_fixes
          ELSE /\ cyc_fixes' = cyc_found
               /\ cyc_results' = [cyc_results EXCEPT !.errors_detected = Len(cyc_found),
                                                     !.success = (cyc_found = <<>>)]
               /\ cyc_pc' = IF cyc_found = <<>> THEN "returned" ELSE "commit"
  /\ UNCHANGED <<cyc_found, cyc_repo_writes, cyc_commit, notCyc>>

\* lines 1533-1534: commit_and_push(fixes), its value dropped, then
\* fixes_applied = len(fixes)
CycCommitAndPush ==
  /\ cyc_pc = "commit"
  /\ \E readable \in [1..Len(cyc_fixes) -> BOOLEAN], git \in GitOutcomes :
       LET r == ApplyLoop(cyc_file, cyc_fixes, cyc_log, 1, readable) IN
         \* a changed source file shows in `git status --porcelain`
         /\ git = "no_changes" =>
              /\ ~cyc_repo_writes
              /\ r.file = cyc_file
         /\ cyc_file' = r.file
         /\ cyc_fixes' = r.fixes
         /\ cyc_log' = r.log
         /\ cyc_commit' = IF CommitReturn(git) THEN "True" ELSE "False"
  /\ cyc_results' = [cyc_results EXCEPT !.fixes_applied = Len(cyc_fixes)]
  /\ cyc_pc' = "pr"
  /\ UNCHANGED <<cyc_found, cyc_repo_writes, notCyc>>

\* lines 1537-1540 and 1549
CycCreatePR ==
  /\ cyc_pc = "pr"
  /\ \E pr \in {0, 1} :
       cyc_results' = [cyc_results EXCEPT !.pr_created = pr, !.success = TRUE]
  /\ cyc_pc' = "returned"
  /\ UNCHANGED <<cyc_fixes, cyc_found, cyc_file, cyc_repo_writes, cyc_commit, cyc_log, notCyc>>

CycNext == CycClone \/ CycDetect \/ CycCommitAndPush \/ CycCreatePR

SpecCycle == CycInit /\ [][CycNext]_vars

(***************************************************************************)
(* create_pull_request: the caller starts a daemon thread running          *)
(* _do_create, joins it for at most 45 seconds and reads the two boxes.    *)
(* The thread's network calls take any time; time is counted in seconds    *)
(* since t.start().                                                        *)
(***************************************************************************)
DeadlineSecs == 45
PastDeadline == 2

\* the thread has left _do_create
WorkerFinished == prq_worker \in {"done", "failed"}

PRInit ==
  /\ ClsIdle
  /\ AggIdle
  /\ SynIdle
  /\ DynIdle
  /\ FixIdle
  /\ PipIdle
  /\ PatIdle
  /\ MapIdle
  /\ LintIdle
  /\ AppIdle
  /\ CycIdle
  /\ prq_pc = "call"
  /\ prq_ret = "pending"
  /\ prq_worker = "none"
  /\ prq_clock = 0
  /\ prq_result_box = 0
  /\ prq_error_box = FALSE
  /\ prq_created = FALSE
  /\ prq_token \in BOOLEAN
  /\ prq_url_ok \in BOOLEAN
  /\ prq_forked \in BOOLEAN

\* lines 1419-1421: no token (or no PyGithub), no thread
PRSkipped ==
  /\ prq_pc = "call"
  /\ ~prq_token
  /\ prq_ret' = "None:skipped"
  /\ prq_pc' = "returned"
  /\ UNCHANGED <<prq_worker, prq_clock, prq_result_box, prq_error_box, prq_created,
                 prq_token, prq_url_ok, prq_forked, notPR>>

\* lines 1471-1474: t.start(), then the caller waits in t.join(timeout=45)
PRStartThread ==
  /\ prq_pc = "call"
  /\ prq_token
  /\ prq_worker' = "parse"
  /\ prq_pc' = "join"
  /\ UNCHANGED <<prq_ret, prq_clock, prq_result_box, prq_error_box, prq_created,
                 prq_token, prq_url_ok, prq_forked, notPR>>

\* lines 1429-1436
WorkerParse ==
  /\ prq_worker = "parse"
  /\ IF prq_url_ok
     THEN /\ prq_worker' = "get_repo"
          /\ UNCHANGED prq_error_box
     ELSE /\ prq_worker' = "failed"
          /\ prq_error_box' = TRUE
  /\ UNCHANGED <<prq_pc, prq_ret, prq_clock, prq_result_box, prq_created,
                 prq_token, prq_url_ok, prq_forked, notPR>>

\* line 1437, the call answering or raising (handler of lines 1467-1469)
WorkerGetRepo ==
  /\ prq_worker = "get_repo"
  /\ \E ok \in BOOLEAN :
       IF ok
       THEN /\ prq_worker' = IF prq_forked THEN "get_user" ELSE "create_pull"
            /\ UNCHANGED prq_error_box
       ELSE /\ prq_worker' = "failed"
            /\ prq_error_box' = TRUE
  /\ UNCHANGED <<prq_pc, prq_ret, prq_clock, prq_result_box, prq_created,
                 prq_token, prq_url_ok, prq_forked, notPR>>

\* lines 1440-1445
WorkerGetUser ==
  /\ prq_worker = "get_user"
  /\ \E ok \in BOOLEAN :
       IF ok
       THEN /\ prq_worker' = "create_pull"
            /\ UNCHANGED prq_error_box
       ELSE /\ prq_worker' = "failed"
            /\ prq_error_box' = TRUE
  /\ UNCHANGED <<prq_pc, prq_ret, prq_clock, prq_result_box, prq_created,
                 prq_token, prq_url_ok, prq_forked, notPR>>

\* lines 1461-1466
WorkerCreatePull ==
  /\ prq_worker = "create_pull"
  /\ \E ok \in BOOLEAN :
       IF ok
       THEN /\ prq_created' = TRUE
            /\ prq_result_box' = 1
            /\ prq_worker' = "done"
            /\ UNCHANGED prq_error_box
       ELSE /\ prq_worker' = "failed"
            /\ prq_error_box' = TRUE
            /\ UNCHANGED <<prq_created, prq_result_box>>
  /\ UNCHANGED <<prq_pc, prq_ret, prq_clock, prq_token, prq_url_ok, prq_forked, notPR>>

\* a second passes; a caller waiting in join wakes at the deadline at the
\* latest, so the clock passes it only once the caller is out of the join
\* or free to leave it
PRTick ==
  /\ prq_worker # "none"
  /\ prq_clock < DeadlineSecs + PastDeadline
  /\ prq_clock < DeadlineSecs \/ prq_pc # "join" \/ WorkerFinished
  /\ prq_clock' = prq_clock + 1
  /\ UNCHANGED <<prq_pc, prq_ret, prq_worker, prq_result_box, prq_error_box, prq_created,
                 prq_token, prq_url_ok, prq_forked, notPR>>

\* lines 1474-1482, the thread having finished: join returns, is_alive()
\* is False
PRJoinReturns ==
  /\ prq_pc = "join"
  /\ WorkerFinished
  /\ prq_ret' = IF prq_error_box THEN "None:error"
                ELSE IF prq_result_box = 0 THEN "None" ELSE "number"
  /\ prq_pc' = "returned"
  /\ UNCHANGED <<prq_worker, prq_clock, prq_result_box, prq_error_box, prq_created,
                 prq_token, prq_url_ok, prq_forked, notPR>>

\* lines 1474-1478, the 45 seconds over and the thread alive: return None;
\* nothing stops the thread
PRJoinTimesOut ==
  /\ prq_pc = "join"
  /\ prq_clock >= DeadlineSecs
  /\ ~WorkerFinished
  /\ prq_ret' = "None:timeout"
  /\ prq_pc' = "returned"
  /\ UNCHANGED <<prq_worker, prq_clock, prq_result_box, prq_error_box, prq_created,
                 prq_token, prq_url_ok, prq_forked, notPR>>

PRNext ==
  \/ PRSkipped \/ PRStartThread
  \/ WorkerParse \/ WorkerGetRepo \/ WorkerGetUser \/ WorkerCreatePull
  \/ PRTick \/ PRJoinReturns \/ PRJoinTimesOut

SpecPR == PRInit /\ [][PRNext]_vars

(***************************************************************************)
(*                               Properties                                *)
(***************************************************************************)

\* the Category Priority Order as the specification states it
ClaimedOrder == <<"INDENTATION", "SYNTAX", "IMPORT", "TYPE_ERROR", "LINTING", "LOGIC">>
Rank(t) == CHOOSE i \in 1..Len(ClaimedOrder) : ClaimedOrder[i] = t

\* the key of each combined Finding: its normalized path and its line, or
\* <<>> when the Finding is discarded as a notebook/doc path
NormalizedPaths == [fp \in Paths \cup {PathDoc} |-> NormalizePath(fp)]
DiscardedPaths == {fp \in Paths \cup {PathDoc} : IsDocPath(NormalizedPaths[fp])}
GroupKey(e) ==
  IF e.file \in DiscardedPaths THEN <<>> ELSE <<NormalizedPaths[e.file], e.line>>
EarliestType(S) ==
  CHOOSE t \in {all_errors[j].type : j \in S} :
    \A j \in S : Rank(t) <= Rank(all_errors[j].type)
WithKey(list, key) == {j \in 1..Len(list) : KeyOf(list[j]) = key}

\* C1: whenever two or more Findings share a (file, line) key after path
\* normalization, the merge keeps exactly one Finding for that key and its
\* category is the earliest-ranking one among the colliding Findings, whatever
\* the arrival order; the returned list never holds a second one or another
\* category for that key.
C1_HighestPriorityWins ==
  apc = "returned" =>
    \A i \in 1..Len(all_errors) :
      LET key == GroupKey(all_errors[i])
          colliding == {j \in 1..Len(all_errors) : GroupKey(all_errors[j]) = key}
      IN  (key # <<>> /\ Cardinality(colliding) >= 2) =>
            /\ Cardinality(WithKey(unique_errors, key)) = 1
            /\ \A j \in WithKey(unique_errors, key) :
                 unique_errors[j].type = EarliestType(colliding)
            /\ Cardinality(WithKey(returned, key)) <= 1
            /\ \A j \in WithKey(returned, key) :
                 returned[j].type = EarliestType(colliding)

\* a LOGIC Finding followed by a SYNTAX Finding at the same key, one of them
\* under an absolute path, and only the SYNTAX Finding returned
C1_Witness ==
  /\ apc = "returned"
  /\ Len(all_errors) = 2
  /\ all_errors[1] = [file |-> PathA, line |-> 1, type |-> "LOGIC"]
  /\ all_errors[2] = [file |-> PathAbs, line |-> 1, type |-> "SYNTAX"]
  /\ returned = <<[file |-> PathA, line |-> 1, type |-> "SYNTAX"]>>

\* the blocks of the file's lines, as 0-based line ranges <<start, stop>>: a block
\* starts at line 0 and at every header line after it, and runs to the next
\* block's start or to the end of the file
ScannedLines == splitlines(src_lines)
BlockStarts == {0} \cup {i \in 1..(Len(ScannedLines) - 1) : IsHeader(ScannedLines[i + 1])}
BlockStop(a) ==
  IF \E b \in BlockStarts : b > a
  THEN CHOOSE b \in BlockStarts : b > a /\ \A c \in BlockStarts : c > a => b <= c
  ELSE Len(ScannedLines)
Blocks == {<<a, BlockStop(a)>> : a \in BlockStarts}
TimesCompiled(blk) == Cardinality({k \in 1..Len(compiled) : compiled[k] = blk})

\* C2: the block scan hands every block of the file that holds any text to
\* compile() exactly once, whatever the outcome of the blocks before it, the
\* leading lines before the first header and the last block included.
C2_EveryBlockParsedOnce ==
  spc = "done" =>
    \A blk \in Blocks :
      ~IsBlankSrc(SubSeq(ScannedLines, blk[1] + 1, blk[2])) => TimesCompiled(blk) = 1

\* the files of C3: block 1 is a header without its colon over a well-formed
\* body, block 2 a correct header over a body indented two levels; k is the
\* last line of block 1
C3Shape(lines, k) ==
  /\ k >= 2 /\ k + 2 <= Len(lines)
  /\ lines[1] = Line("header_nocolon", 0)
  /\ \A j \in 2..k : lines[j] = Line("stmt", 1)
  /\ lines[k + 1] = Line("header", 0)
  /\ \A j \in (k + 2)..Len(lines) : lines[j] = Line("stmt", 2)

\* the lines at which the block scan has recorded an INDENTATION Finding
BlockScanIndentationLines ==
  {errors[k].line : k \in {j \in 1..Len(errors) :
                             errors[j].source = "block_scan" /\ errors[j].type = "INDENTATION"}}

\* C3 as stated: on such a file the block scan emits exactly one INDENTATION
\* Finding, at block 2's over-indented line, and none for block 1.
C3_FindingAtBlock2 ==
  spc = "done" =>
    \A k \in 1..Len(src_lines) :
      C3Shape(src_lines, k) => BlockScanIndentationLines = {k + 2}

\* C3 as amended: on such a file the block scan emits exactly one INDENTATION
\* Finding, at line 2, the first body line of block 1 (an unexpected indent
\* once the broken header is left out), and none in block 2, whose body is
\* validly indented.
C3_FindingAtBlock1Body ==
  spc = "done" =>
    \A k \in 1..Len(src_lines) :
      C3Shape(src_lines, k) => BlockScanIndentationLines = {2}

\* the file of the specification's example has been scanned
C3_Witness ==
  /\ spc = "done"
  /\ src_lines = <<Line("header_nocolon", 0), Line("stmt", 1),
                   Line("header", 0), Line("stmt", 2)>>
  /\ compiled = <<<<0, 2>>, <<2, 4>>>>
  /\ BlockScanIndentationLines = {2}

\* C7: every Finding recorded by run_syntax_check (tokenize, compile,
\* py_compile output parsing, block scan) has line >= 1, whatever line number
\* py_compile reports.
C7_LineAtLeastOne ==
  \A k \in 1..Len(errors) : errors[k].line >= 1

\* two characters that differ at most in case
SameLetter(a, b) ==
  \/ a = b
  \/ \E i \in 1..Len(LowerCase) : {a, b} = {LowerCase[i], UpperCase[i]}

\* kw is a case-insensitive substring of msg
OccursIgnoringCase(kw, msg) ==
  \E p \in 0..(Len(msg) - Len(kw)) :
    \A k \in 1..Len(kw) : SameLetter(kw[k], msg[p + k])

MatchingCategories(msg) ==
  {t \in Categories :
     \E k \in 1..Len(BUG_KEYWORDS[t]) : OccursIgnoringCase(BUG_KEYWORDS[t][k], msg)}

\* C4: determine_bug_type returns one of the 6 categories for every message,
\* the empty one and the ones matching no keyword included, and the empty
\* message maps to LOGIC.
C4_ClassifierTotal ==
  cpc = "returned" =>
    /\ bug_type \in Categories
    /\ error_msg = <<>> => bug_type = "LOGIC"

\* a message that matches no keyword of any category has been classified
C4_Witness ==
  /\ cpc = "returned"
  /\ error_msg = <<"q", "q">>
  /\ MatchingCategories(error_msg) = {}
  /\ bug_type = "LOGIC"

\* C5: determine_bug_type returns the first category, in the order
\* INDENTATION, SYNTAX, IMPORT, TYPE_ERROR, LINTING, LOGIC, one of whose
\* keywords is a case-insensitive substring of the message, and LOGIC when no
\* keyword of any category matches.
C5_FirstMatchingCategory ==
  cpc = "returned" =>
    LET matching == MatchingCategories(error_msg)
    IN  bug_type = IF matching = {} THEN "LOGIC"
                   ELSE CHOOSE t \in matching : \A u \in matching : Rank(t) <= Rank(u)

\* "f401", a keyword of both IMPORT and LINTING, in lower case, is IMPORT
C5_Witness ==
  /\ cpc = "returned"
  /\ error_msg = <<"f", "4", "0", "1">>
  /\ {"IMPORT", "LINTING"} \subseteq MatchingCategories(error_msg)
  /\ bug_type = "IMPORT"

\* C6: aggregating the returned list again, with the same max_fixes, yields
\* the same list, with the same Findings in the same order.
C6_AggregationIdempotent ==
  apc = "again" => returned_again = returned

\* the (file, line, exception-name) triple of a Finding of the dynamic executor
Triple(e) == <<e.file, e.line, e.message[1]>>

\* C8: the list _analyze_single_file returns never holds two Findings with the
\* same (file, line, exception-name) triple, also when one callable is invoked
\* twice and fails at the same line, or several callables fail at one line.
C8_NoDuplicateTriple ==
  dpc = "done" =>
    \A a, b \in 1..Len(dyn_errors) :
      Triple(dyn_errors[a]) = Triple(dyn_errors[b]) => a = b

\* g and h both fail inside _helper, at its line: two equal lines on stdout,
\* one Finding returned
C8_Witness ==
  /\ dpc = "done"
  /\ module = <<Def(<<"g">>, FALSE, "call_helper"), Def(<<"h">>, FALSE, "call_helper"),
                Def(HelperName, FALSE, "raise")>>
  /\ Len(calls) = 2
  /\ Len(stdout) = 2
  /\ stdout[1] = stdout[2]
  /\ dyn_errors = <<FindingOf(Record(BodyLine(3), "ZeroDivisionError", "division by zero"))>>

\* the stdout lines that become a Finding: the first line of each key
KeptLines == {j \in 1..Len(stdout) : \A i \in 1..(j - 1) : SeenKey(stdout[i]) # SeenKey(stdout[j])}

Inconclusive == {"TimeoutError", "SystemExit", "KeyboardInterrupt"}

\* C9: a call that ends in a timeout, SystemExit or KeyboardInterrupt produces
\* no Finding: no Finding of the returned list comes from a line written to
\* stdout during such a call.
C9_InconclusiveCallsYieldNoFinding ==
  dpc = "done" =>
    \A j \in KeptLines :
      writer[j] # 0 => calls[writer[j]].ending \notin Inconclusive

\* the names the specification says are invoked: the top-level functions that
\* are not private and need no argument, the first FuncCap in declaration order
IsEligible(node) ==
  node.kind = "FunctionDef" /\ ~startswith_underscore(node.name) /\ ~node.required
ExpectedNames ==
  LET chosen == SelectSeq(module, IsEligible)
  IN  Take([k \in 1..Len(chosen) |-> chosen[k].name], FuncCap)

\* the run visited every name: the module loaded, the budget was not used up
\* and no call had to be killed
RanToTheEnd ==
  /\ dpc = "done"
  /\ Compiles(module)
  /\ LoadFailures(module) = {}
  /\ elapsed < BudgetSecs
  /\ \A k \in 1..Len(calls) : calls[k].ending # "hang"

\* C10: for a file that parses, the callables invoked are exactly the first 20,
\* in declaration order, of the top-level functions that are not private and
\* have no required argument; a function that requires arguments, a nested
\* function and a private function are never invoked.
C10_InvokedAreEligible ==
  /\ RanToTheEnd => [k \in 1..Len(calls) |-> calls[k].name] = ExpectedNames
  /\ \A k \in 1..Len(calls) : IsEligible(module[calls[k].node])

(***************************************************************************)
(* The Fix lifecycle (SpecFix).                                            *)
(***************************************************************************)

\* C11: a call of apply_fix on a Fix whose line number exceeds the line count
\* of its (existing) file leaves the Fix FAILED and returns False.
C11_OutOfRangeFails ==
  ( /\ last_call.op = "apply_fix"
    /\ clone_set
    /\ file_exists
    /\ last_call.line > last_call.len_before )
  => (last_call.status_after = "FAILED" /\ last_call.ret = FALSE)

TerminalStatuses == {"APPLIED", "FAILED"}

\* C12: in every step, a Fix whose status is APPLIED or FAILED keeps that
\* status, and any Fix whose status changes ends APPLIED or FAILED.
C12_TerminalStatusIsFinal ==
  [][\A k \in (DOMAIN results) \cap (DOMAIN results') :
       /\ results[k].status \in TerminalStatuses
            => results'[k].status = results[k].status
       /\ results'[k].status # results[k].status
            => results'[k].status \in TerminalStatuses]_vars

\* C16: with clone_path unset, no call of apply_fix or commit_and_push
\* raises.
C16_NothingRaisesWithoutClonePath ==
  (~clone_set /\ last_call.op # "none") => ~last_call.raised

FixTriple(f) == <<f.file, f.line, f.bug_type>>

FindingTriple(e) == <<e.file, e.line, e.type>>

\* C20: when detect_and_fix returns, its list has one Fix per Finding of the
\* analysis, matching one-to-one on (file, line, category), each DETECTED,
\* whatever the order in which the fix-generation tasks completed.
C20_OneDetectedFixPerFinding ==
  (fpc = "ready" /\ ncalls = 0) =>
    /\ Len(results) = Len(AnalysisErrors)
    /\ \A i \in 1..Len(AnalysisErrors) :
         Cardinality({k \in 1..Len(results) : FixTriple(results[k]) = FindingTriple(AnalysisErrors[i])}) = 1
    /\ \A k \in 1..Len(results) :
         /\ results[k].status = "DETECTED"
         /\ \E i \in 1..Len(AnalysisErrors) : FixTriple(results[k]) = FindingTriple(AnalysisErrors[i])

\* C20 witness: two Fixes returned, generated in the reverse of the order of
\* submission.
C20_Witness ==
  /\ fpc = "ready"
  /\ ncalls = 0
  /\ completed = <<2, 1>>
  /\ Len(results) = 2
  /\ results[1].bug_type # results[2].bug_type

(***************************************************************************)
(* The analysis pipeline (SpecPipeline).                                   *)
(***************************************************************************)
Range(seq) == {seq[i] : i \in 1..Len(seq)}

TripleSet(list) == {FindingTriple(e) : e \in Range(list)}

\* the combined list when the dynamic tasks complete in the order of their
\* submission
RECURSIVE DynamicInFileOrder(_)
DynamicInFileOrder(i) ==
  IF i > Len(python_files) THEN <<>>
  ELSE ScanOne("dynamic", repo[i], python_files[i]).findings \o DynamicInFileOrder(i + 1)

StaticErrors ==
  RunScanner("syntax", repo, 1, <<>>).findings
    \o RunScanner("regex", repo, 1, <<>>).findings
    \o RunScanner("lint", repo, 1, <<>>).findings
    \o RunScanner("static", repo, 1, <<>>).findings

\* C13: for given files and max_fixes, the set of (file, line, category) of
\* the returned list is the same for every completion order of the worker
\* threads: it is the set obtained when the tasks complete in the order of
\* their submission.
C13_SameSetForEveryOrder ==
  outcome = "returned" =>
    TripleSet(returned)
      = TripleSet(Aggregate(StaticErrors \o DynamicInFileOrder(1), max_fixes))

\* C14: the dynamic stage starts, and Findings enter the combined list, only
\* when all four static scanners have completed; aggregation starts only
\* when run_dynamic_analysis has returned, every file's task collected.
C14_StagesInOrder ==
  /\ (ppc \in {"dynamic", "aggregate"} \/ dyn_started # {} \/ all_errors # <<>>)
       => \A s \in Scanners : scanner[s] = "done"
  /\ (ppc = "aggregate" \/ unique_errors # <<>> \/ outcome = "returned")
       => /\ Len(dyn_completed) = Len(python_files)
          /\ Len(all_errors) = Len(StaticErrors) + Len(dynamic_errors)

\* C14 witness: a call that went through the three stages and returned
\* Findings of a static scanner and of the dynamic stage, the second file's
\* dynamic task completing first.
C14_Witness ==
  /\ ppc = "end"
  /\ outcome = "returned"
  /\ StaticErrors # <<>>
  /\ dyn_completed = <<2, 1>>
  /\ dynamic_errors # <<>>
  /\ returned # <<>>

\* C15: the call of run_comprehensive_analysis returns a list, and every
\* Finding a scanner produces on a file is in the combined list, whatever
\* exception a scanner met on another file.
C15_ScannerExceptionsContained ==
  ppc = "end" =>
    /\ outcome = "returned"
    /\ \A s \in Scanners \cup {"dynamic"} : \A i \in 1..Len(python_files) :
         Range(ScanOne(s, repo[i], python_files[i]).findings) \subseteq Range(all_errors)

(***************************************************************************)
(* Truncation to max_fixes (Spec).                                         *)
(***************************************************************************)
\* the index in all_errors of the first Finding with the key
FirstArrival(key) ==
  CHOOSE i \in 1..Len(all_errors) :
    /\ GroupKey(all_errors[i]) = key
    /\ \A j \in 1..(i - 1) : GroupKey(all_errors[j]) # key

\* C17: the returned list has at most max_fixes entries and is exactly the
\* first max_fixes entries of the deduplicated list, which holds every key
\* once, in the order in which the keys first arrived.
C17_FirstMaxFixesInArrivalOrder ==
  apc = "returned" =>
    /\ Len(returned) <= max_fixes
    /\ Len(returned) = (IF max_fixes < Len(unique_errors) THEN max_fixes ELSE Len(unique_errors))
    /\ \A i \in 1..Len(returned) : returned[i] = unique_errors[i]
    /\ {KeyOf(unique_errors[i]) : i \in 1..Len(unique_errors)}
         = {GroupKey(all_errors[j]) : j \in 1..Len(all_errors)} \ {<<>>}
    /\ \A i, j \in 1..Len(unique_errors) :
         i < j => FirstArrival(KeyOf(unique_errors[i])) < FirstArrival(KeyOf(unique_errors[j]))

\* C17 witness: two keys and max_fixes = 1; the first key's Finding was
\* replaced by a later Finding of higher priority, and it is the one returned.
C17_Witness ==
  /\ apc = "returned"
  /\ max_fixes = 1
  /\ Len(unique_errors) = 2
  /\ Len(returned) = 1
  /\ Len(all_errors) = 3
  /\ KeyOf(returned[1]) = GroupKey(all_errors[1])
  /\ GroupKey(all_errors[2]) # GroupKey(all_errors[1])
  /\ GroupKey(all_errors[3]) = GroupKey(all_errors[1])
  /\ returned[1].type = all_errors[3].type
  /\ returned[1].type # all_errors[1].type

(***************************************************************************)
(* The division-by-zero pattern (SpecPattern).                             *)
(***************************************************************************)
FlaggedLogic(n) ==
  \E k \in 1..Len(pattern_errors) :
    pattern_errors[k].line = n /\ pattern_errors[k].type = "LOGIC"

\* C18: the scanner returns a LOGIC Finding for every line that is neither
\* blank nor a comment and holds a division or a modulo whose right operand
\* is the literal 0, and none for a line whose divisor is a non-zero literal.
C18_ZeroDivisorLinesFlagged ==
  patpc = "returned" =>
    \A n \in 1..Len(pat_lines) : \A sh \in PatLineShapes :
      (Chars(sh) = pat_lines[n] /\ sh.prefix # <<"#", " ">>) =>
        /\ sh.right = ZeroLiteral => FlaggedLogic(n)
        /\ sh.right \in NonZeroLiterals => ~FlaggedLogic(n)

(***************************************************************************)
(* Categories (SpecCategories).                                            *)
(***************************************************************************)
SixCategories == {"LINTING", "SYNTAX", "LOGIC", "TYPE_ERROR", "IMPORT", "INDENTATION"}

\* C19: every Finding a scanner emits, and every Finding returned, has one
\* of the six categories: every lint code and every exception name maps to
\* one of them, an exception name absent from the table to LOGIC.
C19_CategoryAmongSix ==
  /\ \A i \in 1..Len(emitted) : emitted[i].type \in SixCategories
  /\ \A i \in 1..Len(map_returned) : map_returned[i].type \in SixCategories
  /\ (map_site = "exception" /\ map_input \notin TableNames)
       => \A i \in 1..Len(emitted) : emitted[i].type = "LOGIC"
  /\ mappc = "returned" => Len(map_returned) = 1

\* C19 witness: an exception name absent from the table was mapped and its
\* Finding returned.
C19_Witness ==
  /\ mappc = "returned"
  /\ map_site = "exception"
  /\ map_input = "CustomError"
  /\ map_returned = <<MapFinding("LOGIC")>>

(***************************************************************************)
(* The block scan's boundaries, line numbers and entries (SpecSyntax).     *)
(***************************************************************************)
\* C22: the block scan starts a new block only at a header line whose
\* keyword is at column 0, never at the first line of the file: an indented
\* header line does not start a block.
C22_BlocksStartAtColumn0Headers ==
  block_start > 0 =>
    /\ ScannedLines[block_start + 1].kind \in {"header", "header_nocolon"}
    /\ ScannedLines[block_start + 1].indent = 0

\* the lines of a compiled block <<s, stop>>
BlockLinesOf(b) == SubSeq(ScannedLines, b[1] + 1, b[2])

\* the absolute line of the indentation failure the scan of a block reports,
\* 0 when it reports none: s + r for the whole block, s + 1 + r for its body
BlockScanReport(b) ==
  LET bl == BlockLinesOf(b)
      r == Compile(bl)
  IN  IF r.kind = "IndentationError" THEN b[1] + r.lineno
      ELSE IF r.kind = "SyntaxError" /\ Len(bl) > 1 /\ ~IsBlankSrc(Tail(bl))
              /\ Compile(Tail(bl)).kind = "IndentationError"
      THEN b[1] + 1 + Compile(Tail(bl)).lineno
      ELSE 0

BlockScanEntries == {k \in 1..Len(errors) : errors[k].source = "block_scan"}

\* C23: every Finding of the block scan is at line s + r (whole block) or
\* s + 1 + r (body alone) of a block starting at index s whose parse failed
\* at its line r; that line is a line of the file, between 1 and the file's
\* line count, and it is the physical line the parser was given as line r.
C23_BlockLinesAreAbsolute ==
  \A k \in BlockScanEntries :
    /\ errors[k].line >= 1
    /\ errors[k].line <= Len(ScannedLines)
    /\ \E j \in 1..Len(compiled) :
         LET b == compiled[j]
             bl == BlockLinesOf(b)
             r == Compile(bl)
         IN  \/ /\ r.kind = "IndentationError"
                /\ errors[k].line = b[1] + r.lineno
                /\ r.lineno \in 1..Len(bl)
                /\ ScannedLines[errors[k].line] = bl[r.lineno]
             \/ /\ r.kind = "SyntaxError"
                /\ Len(bl) > 1
                /\ Compile(Tail(bl)).kind = "IndentationError"
                /\ errors[k].line = b[1] + 1 + Compile(Tail(bl)).lineno
                /\ Compile(Tail(bl)).lineno \in 1..Len(Tail(bl))
                /\ ScannedLines[errors[k].line] = Tail(bl)[Compile(Tail(bl)).lineno]

\* C23 witness: a block starting after the first line whose header fails to
\* parse and whose body, parsed alone, gave the Finding of the block scan.
C23_Witness ==
  /\ spc = "done"
  /\ \E k \in BlockScanEntries : \E j \in 1..Len(compiled) :
       /\ compiled[j][1] > 0
       /\ Compile(BlockLinesOf(compiled[j])).kind = "SyntaxError"
       /\ BlockScanReport(compiled[j]) = errors[k].line

\* C25: when the file is done, the entry recorded for a line at which a
\* block reported an indentation failure is an INDENTATION entry, whatever
\* an earlier pass recorded for that line.
C25_IndentationNeverMasked ==
  spc = "done" =>
    \A j \in 1..Len(compiled) :
      BlockScanReport(compiled[j]) # 0 =>
        \E k \in 1..Len(errors) :
          /\ errors[k].line = BlockScanReport(compiled[j])
          /\ errors[k].type = "INDENTATION"

(***************************************************************************)
(* The origin of the dynamic Findings (SpecDynamic).                       *)
(***************************************************************************)
\* C27: every Finding returned for the file reports an exception that was
\* raised while the module was loaded or by one of the invoked callables:
\* its exception name and line are those of a failed load or of a call that
\* ended in an exception.
C27_FindingsAreRaisedExceptions ==
  dpc = "done" =>
    \A i \in 1..Len(dyn_errors) :
      LET e == dyn_errors[i]
      IN  \/ \E k \in LoadFailures(module) :
               e.line = HeaderLine(k) /\ e.message[1] = "ModuleNotFoundError"
          \/ \E c \in 1..Len(calls) :
               /\ calls[c].ending = "raise"
               /\ e.line = CallResult(module, calls[c].node).line
               /\ e.message[1] = CallResult(module, calls[c].node).exc

\* what each external tool yields when it is installed: the Findings its
\* output holds (E/F diagnostics of a JSON list, every coded text line)
RuffYield ==
  IF ~ruff_present THEN <<>>
  ELSE IF ruff_out.format = "text" THEN RuffText(ruff_out.items)
  ELSE RuffText(SelectSeq(ruff_out.items,
                  LAMBDA it : it.code_kind = "str"
                              /\ (StartsWith(it.code, <<"E">>) \/ StartsWith(it.code, <<"F">>))))

PyflakesYield == IF pyflakes_present THEN PyflakesAttempt(pyflakes_out) ELSE <<>>

\* C24: run_rruff_linter tries ruff, pyflakes and the AST lint in that
\* order; a tool that is absent or yields no Finding makes it fall through,
\* the list returned is exactly that of the first stage yielding any, and
\* the call never raises.
C24_FirstYieldingStageReturns ==
  lpc = "end" =>
    /\ lint_outcome = "returned"
    /\ lint_errors = IF RuffYield # <<>> THEN RuffYield
                     ELSE IF PyflakesYield # <<>> THEN PyflakesYield
                     ELSE ast_out

\* the position of the comment of Fix k in the file, 0 when it has none
CommentAt(file, k) ==
  IF \E p \in 1..Len(file) : file[p].text = CommentText(k)
  THEN CHOOSE p \in 1..Len(file) : file[p].text = CommentText(k)
  ELSE 0

\* the number of the first source line below position p, 0 when there is
\* none: the comments and empty lines of other Fixes in between are skipped
SourceAfter(file, p) ==
  LET below == {q \in (p + 1)..Len(file) : file[q].text[1] = "L"} IN
    IF below = {} THEN 0
    ELSE file[CHOOSE q \in below : \A q2 \in below : q <= q2].text[2]

\* C26: after commit_and_push's loop over several Fixes of one file, each
\* APPLIED Fix's comment stands before the source line its Finding named
\* in the file as detected (only inserted lines in between), and no Fix
\* whose line is past the end of that file is APPLIED.
C26_CommentsLandAtDetectedLines ==
  (app_pc = "applied" /\ \A j \in 1..Len(app_fixes) : app_fixes[j].line >= 1) =>
    \A k \in 1..Len(app_fixes) :
      /\ app_fixes[k].line > Len(app_orig) => app_fixes[k].status # "APPLIED"
      /\ app_fixes[k].status = "APPLIED" =>
           LET p == CommentAt(app_file, k) IN
             /\ p > 0
             /\ SourceAfter(app_file, p) = app_fixes[k].line

\* C28: a call of apply_fix changes the file only by inserting the comment
\* element before line fix.line, the lines already there keeping content
\* and order; it returns True exactly when it wrote the file and set
\* APPLIED, and after False the file is as before and the status is not
\* APPLIED.
C28_OnlyInsertsBeforeLine ==
  (app_i > 0 /\ app_fixes[app_i].line >= 1) =>
    LET fix == app_fixes[app_i]
        n == fix.line
    IN IF app_rets[app_i]
       THEN /\ fix.status = "APPLIED"
            /\ n >= 1
            /\ n <= Len(app_prev)
            /\ app_file = SubSeq(app_prev, 1, n - 1) \o CommentElement(app_i)
                            \o SubSeq(app_prev, n, Len(app_prev))
       ELSE /\ app_file = app_prev
            /\ fix.status # "APPLIED"

\* C21: in run_full_cycle nothing writes a source file of the working copy
\* before detection has finished: every write and every apply_fix call
\* comes after run_comprehensive_analysis has returned.
C21_NoWriteBeforeDetectionEnds ==
  \A i \in 1..Len(cyc_log) :
    cyc_log[i] \in {"write:code_under_test", "write:apply_fix", "call:apply_fix"} =>
      \E j \in 1..(i - 1) : cyc_log[j] = "analysis_returned"

\* the Fixes whose status is APPLIED
AppliedFixes == {k \in 1..Len(cyc_fixes) : cyc_fixes[k].status = "APPLIED"}

\* C29: in the result of run_full_cycle fixes_applied is the number of
\* Fixes with status APPLIED after commit_and_push, and success is True
\* only if no exception occurred and commit_and_push returned True or
\* there were no Fixes.
C29_ResultReportsWhatWasApplied ==
  cyc_pc = "returned" =>
    /\ cyc_results.fixes_applied = Cardinality(AppliedFixes)
    /\ cyc_results.success =>
         /\ ~cyc_results.error
         /\ (cyc_commit = "True" \/ cyc_fixes = <<>>)

\* C30: create_pull_request returns a PR number only if its worker thread
\* finished without error before the 45-second deadline, and when it
\* returns None because the deadline passed, that call creates no pull
\* request afterwards.
C30_NoPullRequestAfterTimeout ==
  /\ prq_ret = "number" => (prq_worker = "done" /\ ~prq_error_box)
  /\ prq_ret = "None:timeout" => ~prq_created

====
